---- MODULE Spec2Model ----
(***************************************************************************)
(* Model of go-blar: the metadata parser and registry (internal/meta),     *)
(* the generic Repository (internal/repo), the lifecycle hook dispatchers  *)
(* (internal/hooks) and the CRUD handlers (internal/http) over a storage   *)
(* driver that behaves as gorm does, the route registration                *)
(* (RegisterEntityRoutes) and the App (goblar.New, Register, Start, Run).  *)
(* Go strings are sequences of one-character strings, so that Split,       *)
(* TrimSpace, HasPrefix, Contains, toSnakeCase and ParseInt compute on     *)
(* characters exactly as the Go code does.                                 *)
(***************************************************************************)
EXTENDS Integers, Sequences, FiniteSets, TLC

VARIABLES registry, metas, pc, arg, ret, rets, stored, crashed, sfIn, fmOut,
          snIn, snOut, preReset, rows, dbUp, repoDb, repoRet,
          hkEntity, hkRet, hkDone, hMeta, hreq, hnd,
          rtIn, rtOut, app, appRet, migrated, server

vars == <<registry, metas, pc, arg, ret, rets, stored, crashed, sfIn, fmOut,
          snIn, snOut, preReset, rows, dbUp, repoDb, repoRet,
          hkEntity, hkRet, hkDone, hMeta, hreq, hnd,
          rtIn, rtOut, app, appRet, migrated, server>>

metaVars == <<registry, metas, pc, arg, ret, rets, stored, crashed>>

fieldVars == <<sfIn, fmOut>>

snakeVars == <<snIn, snOut>>

\* the variables of the packages other than internal/meta's Parse and parseField
\* the table of the entity in the storage engine and whether the engine
\* answers
dbVars == <<rows, dbUp>>

\* the Repository's driver handle and what its last operation returned
repoVars == <<repoDb, repoRet>>

\* the entity handed to the hook dispatchers, what the last dispatch
\* returned, and the dispatchers called on the entity so far
hookVars == <<hkEntity, hkRet, hkDone>>

\* the entity type the Handlers serve, the request being served and the
\* position and locals of its handler
httpVars == <<hMeta, hreq, hnd>>

\* storage, Repository, hooks and handlers
crudVars == <<dbVars, repoVars, hookVars, httpVars>>

\* RegisterEntityRoutes argument and result
routeVars == <<rtIn, rtOut>>

\* the App, what its last method returned, the tables the driver has
\* migrated and the HTTP server Start runs
appVars == <<app, appRet, migrated, server>>

\* router and App
topVars == <<routeVars, appVars>>

restVars == <<snakeVars, preReset, crudVars, topVars>>

\* internal/meta
nonCrudVars == <<metaVars, fieldVars, snakeVars, preReset, topVars>>

\* all but storage and Repository
nonRepoVars == <<nonCrudVars, hookVars, httpVars>>

\* all but the hook dispatchers
nonHookVars == <<nonCrudVars, dbVars, repoVars, httpVars>>

\* all but the handlers and the storage they write
nonHttpVars == <<nonCrudVars, repoVars, hookVars>>

(***************************************************************************)
(* Bounds                                                                  *)
(***************************************************************************)
\* number of EntityMeta values the model lets Parse allocate
MaxMetas == 2

\* length of the generated identifiers handed to toSnakeCase
MaxIdentLen == 4

\* largest primary key the storage engine hands out or is asked for
MaxId == 2

(***************************************************************************)
(* Characters and the strings package                                      *)
(***************************************************************************)
UpperSeq == <<"A","B","C","D","E","F","G","H","I","J","K","L","M",
              "N","O","P","Q","R","S","T","U","V","W","X","Y","Z">>

LowerSeq == <<"a","b","c","d","e","f","g","h","i","j","k","l","m",
              "n","o","p","q","r","s","t","u","v","w","x","y","z">>

\* r >= 'A' && r <= 'Z'
IsUpper(r) == \E i \in DOMAIN UpperSeq : UpperSeq[i] = r

\* r >= 'a' && r <= 'z'
IsLower(r) == \E i \in DOMAIN LowerSeq : LowerSeq[i] = r

ToLowerRune(r) ==
    IF IsUpper(r)
    THEN LowerSeq[CHOOSE i \in DOMAIN UpperSeq : UpperSeq[i] = r]
    ELSE r

\* strings.ToLower
ToLower(s) == [i \in DOMAIN s |-> ToLowerRune(s[i])]

IsSpace(r) == r = " "

RECURSIVE TrimLeft(_)
TrimLeft(s) ==
    IF s # <<>> /\ IsSpace(Head(s)) THEN TrimLeft(Tail(s)) ELSE s

RECURSIVE TrimRight(_)
TrimRight(s) ==
    IF s # <<>> /\ IsSpace(s[Len(s)])
    THEN TrimRight(SubSeq(s, 1, Len(s) - 1))
    ELSE s

\* strings.TrimSpace
TrimSpace(s) == TrimRight(TrimLeft(s))

\* strings.HasPrefix
HasPrefix(s, prefix) ==
    /\ Len(prefix) <= Len(s)
    /\ SubSeq(s, 1, Len(prefix)) = prefix

\* strings.TrimPrefix
TrimPrefix(s, prefix) ==
    IF HasPrefix(s, prefix) THEN SubSeq(s, Len(prefix) + 1, Len(s)) ELSE s

\* strings.Contains
Contains(s, substr) ==
    \E i \in 1..(Len(s) - Len(substr) + 1) :
        SubSeq(s, i, i + Len(substr) - 1) = substr

\* strings.Split(s, ";"): the fragments between separators, never empty
RECURSIVE SplitFrom(_, _, _)
SplitFrom(s, i, cur) ==
    IF i > Len(s) THEN <<cur>>
    ELSE IF s[i] = ";" THEN <<cur>> \o SplitFrom(s, i + 1, <<>>)
    ELSE SplitFrom(s, i + 1, Append(cur, s[i]))

Split(s) == SplitFrom(s, 1, <<>>)

RECURSIVE Concat(_)
Concat(ss) == IF ss = <<>> THEN <<>> ELSE Head(ss) \o Concat(Tail(ss))

(***************************************************************************)
(* toSnakeCase (parse.go)                                                  *)
(***************************************************************************)
\* the loop without its second branch (an uppercase rune followed by a
\* lowercase one)
SnakeWriteNoAcronym(runes, i) ==
    LET r == runes[i] IN
    IF i = 1 THEN <<r>>
    ELSE IF r = "_" THEN <<r>>
    ELSE IF IsUpper(r) /\ runes[i-1] # "_" /\ IsLower(runes[i-1])
         THEN <<"_", r>>
         ELSE <<r>>

\* what one iteration of the loop writes for the rune at (1-based) index i
SnakeWrite(runes, i) ==
    LET r == runes[i] IN
    IF i = 1 THEN <<r>>
    ELSE IF r = "_" THEN <<r>>
    ELSE IF IsUpper(r)
         THEN IF runes[i-1] # "_" /\ IsLower(runes[i-1])
              THEN <<"_", r>>
              ELSE IF /\ runes[i-1] # "_"
                      /\ i + 1 <= Len(runes)
                      /\ IsLower(runes[i+1])
                   THEN <<"_", r>>
                   ELSE <<r>>
         ELSE <<r>>

toSnakeCase(s) ==
    ToLower(Concat([i \in DOMAIN s |-> SnakeWrite(s, i)]))

(***************************************************************************)
(* Words of the tag grammar (parse.go) as character sequences              *)
(***************************************************************************)
sPk == <<"p","k">>
sNested == <<"n","e","s","t","e","d">>
sList == <<"l","i","s","t">>
sHidden == <<"h","i","d","d","e","n">>
sReadonly == <<"r","e","a","d","o","n","l","y">>
sFkColon == <<"f","k",":">>
sM2mColon == <<"m","2","m",":">>
sCountColon == <<"c","o","u","n","t",":">>
sSumColon == <<"s","u","m",":">>
sPrimaryKey == <<"p","r","i","m","a","r","y","K","e","y">>
sTableColon == <<"t","a","b","l","e",":">>
sGorm == <<"g","o","r","m">>
sCount == <<"c","o","u","n","t">>
sSum == <<"s","u","m">>
sPlural == <<"s">>

(***************************************************************************)
(* The Go types handed to Parse.  A declaration gives what reflect reports:*)
(* package name, type name, kind, and the fields with their tags.          *)
(***************************************************************************)
\* parse_test.go TestParseBasicStruct; the spec's Product{ID,Name,Price}
ProductBasic ==
    [pkg |-> <<"m","e","t","a">>, name |-> <<"P","r","o","d","u","c","t">>, kind |-> "struct",
     fields |->
       <<[Name |-> <<"I","D">>, Type |-> "uint", blar |-> <<"p","k">>, gorm |-> <<"p","r","i","m","a","r","y","K","e","y">>],
         [Name |-> <<"N","a","m","e">>, Type |-> "string", blar |-> <<>>, gorm |-> <<>>],
         [Name |-> <<"P","r","i","c","e">>, Type |-> "float64", blar |-> <<>>, gorm |-> <<>>]>>]

\* parse_test.go TestParseFieldTags: a second type whose String() is meta.Product
ProductTags ==
    [pkg |-> <<"m","e","t","a">>, name |-> <<"P","r","o","d","u","c","t">>, kind |-> "struct",
     fields |->
       <<[Name |-> <<"I","D">>, Type |-> "uint", blar |-> <<"p","k">>, gorm |-> <<>>],
         [Name |-> <<"N","a","m","e">>, Type |-> "string", blar |-> <<>>, gorm |-> <<>>],
         [Name |-> <<"S","e","c","r","e","t">>, Type |-> "string", blar |-> <<"h","i","d","d","e","n">>, gorm |-> <<>>],
         [Name |-> <<"R","e","a","d","O","n","l","y">>, Type |-> "string", blar |-> <<"r","e","a","d","o","n","l","y">>, gorm |-> <<>>],
         [Name |-> <<"I","t","e","m","s">>, Type |-> "[]string", blar |-> <<"l","i","s","t">>, gorm |-> <<>>]>>]

\* example_main.go User{ID,Name,Email}
UserDecl ==
    [pkg |-> <<"m","a","i","n">>, name |-> <<"U","s","e","r">>, kind |-> "struct",
     fields |->
       <<[Name |-> <<"I","D">>, Type |-> "uint", blar |-> <<"p","k">>, gorm |-> <<"p","r","i","m","a","r","y","K","e","y">>],
         [Name |-> <<"N","a","m","e">>, Type |-> "string", blar |-> <<>>, gorm |-> <<>>],
         [Name |-> <<"E","m","a","i","l">>, Type |-> "string", blar |-> <<>>, gorm |-> <<>>]>>]

\* example_main.go ProductToPrice: two fields marked primary key
ProductToPrice ==
    [pkg |-> <<"m","a","i","n">>, name |-> <<"P","r","o","d","u","c","t","T","o","P","r","i","c","e">>, kind |-> "struct",
     fields |->
       <<[Name |-> <<"P","r","o","d","u","c","t","I","D">>, Type |-> "uint", blar |-> <<>>, gorm |-> <<"p","r","i","m","a","r","y","K","e","y">>],
         [Name |-> <<"T","a","g","I","D">>, Type |-> "uint", blar |-> <<>>, gorm |-> <<"p","r","i","m","a","r","y","K","e","y">>]>>]

\* README.md Field Tags example (fk, m2m, count, sum, list)
ProductDsl ==
    [pkg |-> <<"s","h","o","p">>, name |-> <<"P","r","o","d","u","c","t">>, kind |-> "struct",
     fields |->
       <<[Name |-> <<"I","D">>, Type |-> "uint", blar |-> <<"p","k">>, gorm |-> <<"p","r","i","m","a","r","y","K","e","y">>],
         [Name |-> <<"U","s","e","r","I","D">>, Type |-> "uint", blar |-> <<"f","k",":","U","s","e","r">>, gorm |-> <<>>],
         [Name |-> <<"T","a","g","s">>, Type |-> "[]Tag", blar |-> <<"m","2","m",":","p","r","o","d","u","c","t","_","t","a","g","s">>, gorm |-> <<"m","a","n","y","2","m","a","n","y",":","p","r","o","d","u","c","t","_","t","a","g","s">>],
         [Name |-> <<"I","t","e","m","C","o","u","n","t">>, Type |-> "int", blar |-> <<"c","o","u","n","t",":","I","t","e","m","s">>, gorm |-> <<>>],
         [Name |-> <<"I","t","e","m","S","u","m">>, Type |-> "float64", blar |-> <<"s","u","m",":","I","t","e","m","s",".","P","r","i","c","e">>, gorm |-> <<>>],
         [Name |-> <<"I","t","e","m","s">>, Type |-> "[]Item", blar |-> <<"l","i","s","t">>, gorm |-> <<>>]>>]

\* parse_test.go Article, with the field named gorm that Parse reads the table name from
ArticleDecl ==
    [pkg |-> <<"b","l","o","g">>, name |-> <<"A","r","t","i","c","l","e">>, kind |-> "struct",
     fields |->
       <<[Name |-> <<"g","o","r","m">>, Type |-> "struct{}", blar |-> <<>>, gorm |-> <<"c","o","l","u","m","n",":","-",";"," ","t","a","b","l","e",":","p","o","s","t","s">>],
         [Name |-> <<"I","D">>, Type |-> "uint", blar |-> <<>>, gorm |-> <<>>],
         [Name |-> <<"T","i","t","l","e">>, Type |-> "string", blar |-> <<>>, gorm |-> <<>>],
         [Name |-> <<"d","r","a","f","t">>, Type |-> "bool", blar |-> <<"h","i","d","d","e","n">>, gorm |-> <<>>]>>]

\* an entity whose gorm tags mention table: and primaryKey on ordinary fields
InvoiceDecl ==
    [pkg |-> <<"s","h","o","p">>, name |-> <<"I","n","v","o","i","c","e">>, kind |-> "struct",
     fields |->
       <<[Name |-> <<"T","o","t","a","l">>, Type |-> "float64", blar |-> <<>>, gorm |-> <<"t","a","b","l","e",":","b","i","l","l","s">>],
         [Name |-> <<"N","o","t","e">>, Type |-> "string", blar |-> <<>>, gorm |-> <<"c","o","m","m","e","n","t",":","p","r","i","m","a","r","y","K","e","y">>]>>]

\* the predeclared type int, a non-struct input
IntDecl ==
    [pkg |-> <<>>, name |-> <<"i","n","t">>, kind |-> "int",
     fields |->
       <<>>]

Types == <<ProductBasic, ProductTags, UserDecl, ProductToPrice, ProductDsl, ArticleDecl, InvoiceDecl, IntDecl>>

TypeIds == DOMAIN Types

(***************************************************************************)
(* reflect: what Parse asks of a type                                      *)
(***************************************************************************)
\* t.String(): the package name, a dot, the type name ("int" for a
\* predeclared type).  Types declared in different scopes or in packages
\* with the same last path element share it.
TypeString(t) ==
    IF Types[t].pkg = <<>> THEN Types[t].name
    ELSE Types[t].pkg \o <<".">> \o Types[t].name

\* t.Name()
TypeName(t) == Types[t].name

\* sf.PkgPath: empty for an exported (upper-case) field name
PkgPath(t, i) ==
    IF IsUpper(Types[t].fields[i].Name[1]) THEN <<>> ELSE Types[t].pkg

\* t.Field(i), with the 0-based Index reflect reports
StructField(t, i) ==
    [Name |-> Types[t].fields[i].Name,
     Type |-> Types[t].fields[i].Type,
     Index |-> <<i - 1>>,
     PkgPath |-> PkgPath(t, i),
     Tag |-> [blar |-> Types[t].fields[i].blar, gorm |-> Types[t].fields[i].gorm]]

\* t.FieldByName(name): the field, or none (the empty sequence)
FieldByName(t, name) ==
    LET hits == {i \in DOMAIN Types[t].fields : Types[t].fields[i].Name = name}
    IN IF hits = {} THEN <<>>
       ELSE <<StructField(t, CHOOSE i \in hits : \A j \in hits : i <= j)>>

(***************************************************************************)
(* parseField                                                              *)
(***************************************************************************)
\* the FieldMeta literal of parseField: every flag false, FK and M2M nil
\* (a nil pointer is the empty sequence, a non-nil one a one-element one)
NewFieldMeta(sf) ==
    [Name |-> sf.Name, Type |-> sf.Type, Index |-> sf.Index,
     IsPK |-> FALSE, FK |-> <<>>, Nested |-> FALSE, M2M |-> <<>>,
     List |-> FALSE, Hidden |-> FALSE, ReadOnly |-> FALSE]

\* ApplyPart with the readonly case setting Hidden (a copied case body)
ApplyPartReadonlyHides(fm, part) ==
    IF part = sPk THEN [fm EXCEPT !.IsPK = TRUE]
    ELSE IF part = sNested THEN [fm EXCEPT !.Nested = TRUE]
    ELSE IF part = sList THEN [fm EXCEPT !.List = TRUE]
    ELSE IF part = sHidden THEN [fm EXCEPT !.Hidden = TRUE]
    ELSE IF part = sReadonly THEN [fm EXCEPT !.Hidden = TRUE]
    ELSE IF HasPrefix(part, sFkColon)
         THEN [fm EXCEPT !.FK = <<[TableName |-> TrimPrefix(part, sFkColon),
                                   FieldName |-> <<>>]>>]
    ELSE IF HasPrefix(part, sM2mColon)
         THEN [fm EXCEPT !.M2M = <<[TableName |-> TrimPrefix(part, sM2mColon),
                                    FieldName |-> <<>>]>>]
    ELSE fm

\* the switch of parseField on one trimmed fragment; the count: and sum:
\* cases build an AggregateMeta and drop it (_ = meta)
ApplyPart(fm, part) ==
    IF part = sPk THEN [fm EXCEPT !.IsPK = TRUE]
    ELSE IF part = sNested THEN [fm EXCEPT !.Nested = TRUE]
    ELSE IF part = sList THEN [fm EXCEPT !.List = TRUE]
    ELSE IF part = sHidden THEN [fm EXCEPT !.Hidden = TRUE]
    ELSE IF part = sReadonly THEN [fm EXCEPT !.ReadOnly = TRUE]
    ELSE IF HasPrefix(part, sFkColon)
         THEN [fm EXCEPT !.FK = <<[TableName |-> TrimPrefix(part, sFkColon),
                                   FieldName |-> <<>>]>>]
    ELSE IF HasPrefix(part, sM2mColon)
         THEN [fm EXCEPT !.M2M = <<[TableName |-> TrimPrefix(part, sM2mColon),
                                    FieldName |-> <<>>]>>]
    ELSE IF HasPrefix(part, sCountColon) THEN fm
    ELSE IF HasPrefix(part, sSumColon) THEN fm
    ELSE fm

RECURSIVE ApplyParts(_, _)
ApplyParts(fm, parts) ==
    IF parts = <<>> THEN fm
    ELSE ApplyParts(ApplyPart(fm, TrimSpace(Head(parts))), Tail(parts))

\* the gorm-tag test at the end of parseField
GormMarksPK(gormTag) == Contains(gormTag, sPrimaryKey)

parseField(sf) ==
    LET blarTag == sf.Tag.blar
        gormTag == sf.Tag.gorm
        fm0 == NewFieldMeta(sf)
        fm1 == IF blarTag # <<>> THEN ApplyParts(fm0, Split(blarTag)) ELSE fm0
    IN IF GormMarksPK(gormTag) THEN [fm1 EXCEPT !.IsPK = TRUE] ELSE fm1

(***************************************************************************)
(* parseGormTag                                                            *)
(***************************************************************************)
RECURSIVE FirstTable(_)
FirstTable(parts) ==
    IF parts = <<>> THEN <<>>
    ELSE LET part == TrimSpace(Head(parts))
         IN IF HasPrefix(part, sTableColon)
            THEN TrimPrefix(part, sTableColon)
            ELSE FirstTable(Tail(parts))

\* parseGormTag without the TrimSpace of each fragment
RECURSIVE FirstTableUntrimmed(_)
FirstTableUntrimmed(parts) ==
    IF parts = <<>> THEN <<>>
    ELSE IF HasPrefix(Head(parts), sTableColon)
         THEN TrimPrefix(Head(parts), sTableColon)
         ELSE FirstTableUntrimmed(Tail(parts))

parseGormTagNoTrim(tag) ==
    IF tag = <<>> THEN <<>> ELSE FirstTableUntrimmed(Split(tag))

parseGormTag(tag) ==
    IF tag = <<>> THEN <<>> ELSE FirstTable(Split(tag))

(***************************************************************************)
(* Parse, cache miss: the EntityMeta it builds                             *)
(***************************************************************************)
\* TableNameOf without the pluralizing suffix
TableNameOfNoPlural(t) ==
    LET default == toSnakeCase(TypeName(t))
        gormTag == FieldByName(t, sGorm)
    IN IF gormTag # <<>> /\ parseGormTag(gormTag[1].Tag.gorm) # <<>>
       THEN parseGormTag(gormTag[1].Tag.gorm)
       ELSE default

\* TableName: the pluralized snake_case default, replaced by the table: of
\* the gorm tag of the struct field named "gorm" when that is non-empty
TableNameOf(t) ==
    LET default == toSnakeCase(TypeName(t)) \o sPlural
        gormTag == FieldByName(t, sGorm)
    IN IF gormTag # <<>> /\ parseGormTag(gormTag[1].Tag.gorm) # <<>>
       THEN parseGormTag(gormTag[1].Tag.gorm)
       ELSE default

\* the field loop from field i on.  acc.Fields are the FieldMeta appended so
\* far; acc.PKField is the position in Fields of the FieldMeta that PKField
\* points at, 0 for nil.
RECURSIVE ParseFields(_, _, _)
ParseFields(t, i, acc) ==
    IF i > Len(Types[t].fields) THEN acc
    ELSE LET sf == StructField(t, i) IN
         IF sf.PkgPath # <<>> THEN ParseFields(t, i + 1, acc)
         ELSE LET fm == parseField(sf)
                  fields == Append(acc.Fields, fm)
              IN ParseFields(t, i + 1,
                     [Fields |-> fields,
                      PKField |-> IF fm.IsPK THEN Len(fields) ELSE acc.PKField])

NewEntityMeta(t) ==
    LET parsed == ParseFields(t, 1, [Fields |-> <<>>, PKField |-> 0])
    IN [Type |-> t,
        Name |-> TypeName(t),
        TableName |-> TableNameOf(t),
        PKField |-> parsed.PKField,
        Fields |-> parsed.Fields,
        Nested |-> <<>>,
        Aggregates |-> <<>>]

\* NewEntityMeta of every struct type, computed once
ParsedMeta ==
    [t \in {u \in TypeIds : Types[u].kind = "struct"} |-> NewEntityMeta(t)]

\* EntityMeta.GetFieldByName: the first field of that name, or nil
GetFieldByName(em, name) ==
    LET hits == {i \in DOMAIN em.Fields : em.Fields[i].Name = name}
    IN IF hits = {} THEN <<>>
       ELSE <<em.Fields[CHOOSE i \in hits : \A j \in hits : i <= j]>>

\* EntityMeta.GetAggregateByName: the first aggregate of that name, or nil
GetAggregateByName(em, name) ==
    LET hits == {i \in DOMAIN em.Aggregates : em.Aggregates[i].Name = name}
    IN IF hits = {} THEN <<>>
       ELSE <<em.Aggregates[CHOOSE i \in hits : \A j \in hits : i <= j]>>

(***************************************************************************)
(* The values handed to Parse and the reflect.Type of each                 *)
(***************************************************************************)
Procs == {"g1", "g2"}

\* an interface value: nil, or a value of type T, *T or **T
Values ==
    {[kind |-> "nil", type |-> 0]}
      \cup [kind : {"val", "ptr", "ptrptr"}, type : TypeIds]

NoValue == [kind |-> "none", type |-> 0]

\* reflect.TypeOf(entity) for a non-nil entity: ptr counts the pointer levels
TypeOf(v) ==
    [ptr |-> IF v.kind = "val" THEN 0 ELSE IF v.kind = "ptr" THEN 1 ELSE 2,
     base |-> v.type]

\* t.Kind()
Kind(rt) == IF rt.ptr > 0 THEN "ptr" ELSE Types[rt.base].kind

\* t.Elem() of a pointer type
Elem(rt) == [rt EXCEPT !.ptr = rt.ptr - 1]

\* lines 14-17: the type Parse works on
Resolve(v) ==
    LET t == TypeOf(v) IN IF Kind(t) = "ptr" THEN Elem(t) ELSE t

\* key := t.String()
RString(rt) ==
    IF rt.ptr = 0 THEN TypeString(rt.base)
    ELSE IF rt.ptr = 1 THEN <<"*">> \o TypeString(rt.base)
    ELSE <<"*", "*">> \o TypeString(rt.base)

NoRet == [kind |-> "none", meta |-> 0, arg |-> NoValue]

\* a goroutine outside Parse
Idle == [v |-> NoValue, local |-> 0, cleared |-> FALSE]

EmptyRegistry == [k \in {} |-> 0]

\* registry[key] = meta
MapStore(m, key, meta) ==
    [k \in DOMAIN m \cup {key} |-> IF k = key THEN meta ELSE m[k]]

\* the struct fields and tags handed to parseField on its own
BlarTags ==
    {<<>>,
     <<"p","k">>,
     <<"n","e","s","t","e","d">>,
     <<"l","i","s","t">>,
     <<"h","i","d","d","e","n">>,
     <<"r","e","a","d","o","n","l","y">>,
     <<" ","h","i","d","d","e","n"," ">>,
     <<"f","k",":","U","s","e","r">>,
     <<"m","2","m",":","p","r","o","d","u","c","t","_","t","a","g","s">>,
     <<"c","o","u","n","t",":","I","t","e","m","s">>,
     <<"s","u","m",":","I","t","e","m","s",".","P","r","i","c","e">>,
     <<"o","m","i","t","e","m","p","t","y">>,
     <<"P","K">>,
     <<"p","k",";","h","i","d","d","e","n">>,
     <<"s","e","a","r","c","h","a","b","l","e",";"," ","i","n","d","e","x">>}

GormTags ==
    {<<>>,
     <<"p","r","i","m","a","r","y","K","e","y">>,
     <<"p","r","i","m","a","r","y","K","e","y",";","a","u","t","o","I","n","c","r","e","m","e","n","t">>,
     <<"c","o","l","u","m","n",":","n","a","m","e">>,
     <<"c","o","m","m","e","n","t",":","p","r","i","m","a","r","y","K","e","y">>,
     <<"t","a","b","l","e",":","b","i","l","l","s">>}

FieldInputs ==
    [Name : {<<"F">>}, Type : {"string"}, Index : {<<0>>}, PkgPath : {<<>>},
     Tag : [blar : BlarTags, gorm : GormTags]]

NoField ==
    [Name |-> <<>>, Type |-> "", Index |-> <<>>, PkgPath |-> <<>>,
     Tag |-> [blar |-> <<>>, gorm |-> <<>>]]

(***************************************************************************)
(* The storage driver (gorm.DB over one table) as the repository and the   *)
(* handlers call it.  A table is a function from the primary keys of its   *)
(* rows to the rest of the row; an operation on an engine that does not    *)
(* answer fails with ErrDriver and changes nothing.                        *)
(***************************************************************************)
ErrNil == "nil"
ErrInvalidDB == "gorm.ErrInvalidDB"
ErrRecordNotFound == "gorm.ErrRecordNotFound"
ErrConstraint == "UNIQUE constraint failed"
ErrDriver == "driver error"

\* TestUser{ID uint; Name string}
Names == {"", "Jane", "Updated"}
Ids == 1..MaxId
Entities == [ID : 0..MaxId, Name : Names]
ZeroEntity == [ID |-> 0, Name |-> ""]

EmptyTable == [k \in {} |-> ""]

Put(tbl, id, name) == [k \in DOMAIN tbl \cup {id} |-> IF k = id THEN name ELSE tbl[k]]

Remove(tbl, id) == [k \in DOMAIN tbl \ {id} |-> tbl[k]]

RowOf(tbl, id) == [ID |-> id, Name |-> tbl[id]]

\* the primary keys the engine may generate for a new row
FreshIds(tbl) == Ids \ DOMAIN tbl

\* db.Create(entity): a zero primary key is generated and written back
DbCreate(tbl, up, e, fresh) ==
    IF ~up THEN [rows |-> tbl, err |-> ErrDriver, ent |-> e]
    ELSE IF e.ID = 0
    THEN [rows |-> Put(tbl, fresh, e.Name), err |-> ErrNil, ent |-> [e EXCEPT !.ID = fresh]]
    ELSE IF e.ID \in DOMAIN tbl
    THEN [rows |-> tbl, err |-> ErrConstraint, ent |-> e]
    ELSE [rows |-> Put(tbl, e.ID, e.Name), err |-> ErrNil, ent |-> e]

\* db.First(&entity, id)
DbFirst(tbl, up, id) ==
    IF ~up THEN [err |-> ErrDriver, ent |-> ZeroEntity]
    ELSE IF id \in DOMAIN tbl
    THEN [err |-> ErrNil, ent |-> RowOf(tbl, id)]
    ELSE [err |-> ErrRecordNotFound, ent |-> ZeroEntity]

\* the rows with a primary key of at least id, in primary-key order
RECURSIVE RowsFrom(_, _)
RowsFrom(tbl, id) ==
    IF id > MaxId THEN <<>>
    ELSE IF id \in DOMAIN tbl THEN <<RowOf(tbl, id)>> \o RowsFrom(tbl, id + 1)
    ELSE RowsFrom(tbl, id + 1)

\* db.Find(&entities)
DbFind(tbl, up) ==
    IF ~up THEN [err |-> ErrDriver, list |-> <<>>]
    ELSE [err |-> ErrNil, list |-> RowsFrom(tbl, 1)]

\* db.Save(entity): insert on a zero primary key, else update every field
\* and insert when no row has the key
DbSave(tbl, up, e, fresh) ==
    IF ~up THEN [rows |-> tbl, err |-> ErrDriver, ent |-> e]
    ELSE IF e.ID = 0
    THEN [rows |-> Put(tbl, fresh, e.Name), err |-> ErrNil, ent |-> [e EXCEPT !.ID = fresh]]
    ELSE [rows |-> Put(tbl, e.ID, e.Name), err |-> ErrNil, ent |-> e]

\* db.Model(entity).Where("id = ?", id).Updates(entity): the non-zero fields
\* of the entity are written to the rows with that id; a non-zero primary
\* key of the entity is one more condition on the row and is not written
DbUpdates(tbl, up, id, e) ==
    IF ~up THEN [rows |-> tbl, err |-> ErrDriver]
    ELSE IF id \in DOMAIN tbl /\ (e.ID = 0 \/ e.ID = id) /\ e.Name # ""
    THEN [rows |-> Put(tbl, id, e.Name), err |-> ErrNil]
    ELSE [rows |-> tbl, err |-> ErrNil]

\* db.Delete(&entity, id): DELETE ... WHERE id = ?, no error when no row
\* matches
DbDelete(tbl, up, id) ==
    IF ~up THEN [rows |-> tbl, err |-> ErrDriver]
    ELSE [rows |-> Remove(tbl, id), err |-> ErrNil]

\* db.Model(new(T)).Count(&count)
DbCount(tbl, up) ==
    IF ~up THEN [err |-> ErrDriver, count |-> 0]
    ELSE [err |-> ErrNil, count |-> Cardinality(DOMAIN tbl)]

\* no Repository operation has returned in this step
NoRepoRet ==
    [op |-> "none", in |-> ZeroEntity, id |-> 0, err |-> ErrNil, ent |-> ZeroEntity,
     out |-> <<>>, count |-> 0, called |-> FALSE, up |-> FALSE, before |-> EmptyTable]

(***************************************************************************)
(* Lifecycle hooks (goblar/hooks.go) and the entities of the hook tests.   *)
(* An entity is a value handed to a dispatcher as `any`: its type, whether *)
(* it is a pointer, and its fields.  The hook methods have pointer         *)
(* receivers, so only a pointer to the type has them in its method set.    *)
(***************************************************************************)
HookNames ==
    {"BeforeCreate", "AfterCreate", "BeforeUpdate", "AfterUpdate",
     "BeforeDelete", "AfterDelete"}

NoneCalled == [h \in HookNames |-> FALSE]

\* the hook methods declared on *T
Methods(type) ==
    IF type = "MockEntityWithHooks" THEN HookNames
    ELSE IF type = "Product" THEN {"BeforeCreate", "AfterCreate"}
    ELSE {}

\* entity.(goblar.<h>) succeeds
Implements(e, h) == e.ptr /\ h \in Methods(e.type)

ErrInvalidData == "gorm.ErrInvalidData"

\* errors.New("before create failed"), ...
MockError(h) ==
    IF h = "BeforeCreate" THEN "before create failed"
    ELSE IF h = "AfterCreate" THEN "after create failed"
    ELSE IF h = "BeforeUpdate" THEN "before update failed"
    ELSE IF h = "AfterUpdate" THEN "after update failed"
    ELSE IF h = "BeforeDelete" THEN "before delete failed"
    ELSE "after delete failed"

\* the body of the method h of the entity's type, run on the entity
Invoke(e, h) ==
    IF e.type = "MockEntityWithHooks"
    THEN [ent |-> [e EXCEPT !.Called[h] = TRUE],
          err |-> IF e.ShouldFail THEN MockError(h) ELSE ErrNil]
    ELSE [ent |-> e,
          err |-> IF h = "BeforeCreate" /\ e.Price < 0 THEN ErrInvalidData ELSE ErrNil]

\* &MockEntityWithHooks{}, &MockEntityWithHooks{ShouldFail: true},
\* &SimpleEntity{}, &Product{Price: ...}, and the same passed by value
HookEntities ==
    [type : {"MockEntityWithHooks"}, ptr : BOOLEAN, ShouldFail : BOOLEAN,
     Price : {0}, Called : {NoneCalled}]
    \cup [type : {"SimpleEntity"}, ptr : BOOLEAN, ShouldFail : {FALSE},
          Price : {0}, Called : {NoneCalled}]
    \cup [type : {"Product"}, ptr : BOOLEAN, ShouldFail : {FALSE},
          Price : {-1, 1}, Called : {NoneCalled}]

NoEntity ==
    [type |-> "SimpleEntity", ptr |-> FALSE, ShouldFail |-> FALSE, Price |-> 0,
     Called |-> NoneCalled]

\* no dispatcher has returned in this step
NoHookRet ==
    [disp |-> "none", err |-> ErrNil, calls |-> [h \in HookNames |-> 0], in |-> NoEntity]

HookInit ==
    /\ hkEntity = NoEntity
    /\ hkRet = NoHookRet
    /\ hkDone = {}

(***************************************************************************)
(* Requests and responses of the CRUD handlers (internal/http).  The {id}  *)
(* path parameter is a string of characters; a body is either text that    *)
(* json.Decode rejects or the entity it decodes to.                        *)
(***************************************************************************)
Digits == <<"0", "1", "2", "3", "4", "5", "6", "7", "8", "9">>

IsDigit(c) == \E i \in DOMAIN Digits : Digits[i] = c

DigitValue(c) == (CHOOSE i \in DOMAIN Digits : Digits[i] = c) - 1

\* the value of a string of digits
RECURSIVE DigitsValue(_)
DigitsValue(s) ==
    IF s = <<>> THEN 0
    ELSE 10 * DigitsValue(SubSeq(s, 1, Len(s) - 1)) + DigitValue(s[Len(s)])

\* the digits a string begins with
RECURSIVE LeadingDigits(_)
LeadingDigits(s) ==
    IF s # <<>> /\ IsDigit(Head(s)) THEN <<Head(s)>> \o LeadingDigits(Tail(s)) ELSE <<>>

\* a parse that stops at the first character that is not a digit
ParseIntPrefix(s) ==
    IF LeadingDigits(s) = <<>> THEN [ok |-> FALSE, n |-> 0]
    ELSE [ok |-> TRUE, n |-> DigitsValue(LeadingDigits(s))]

\* strconv.ParseInt(idStr, 10, 64): an optional sign and at least one digit
ParseInt(s) ==
    LET signed == s # <<>> /\ s[1] \in {"+", "-"}
        digits == IF signed THEN Tail(s) ELSE s
    IN IF digits = <<>> \/ \E i \in DOMAIN digits : ~IsDigit(digits[i])
       THEN [ok |-> FALSE, n |-> 0]
       ELSE [ok |-> TRUE,
             n |-> IF signed /\ s[1] = "-" THEN 0 - DigitsValue(digits) ELSE DigitsValue(digits)]

\* chi.URLParam(r, "id")
IdStrings ==
    {<<Digits[i + 1]>> : i \in Ids}
    \cup {<<"-", "1">>, <<"+", "2">>, <<>>, <<"a", "b", "c">>, <<"1", "x">>}

\* r.Body
Bodies ==
    [ok : {TRUE}, ent : Entities] \cup {[ok |-> FALSE, ent |-> ZeroEntity]}

NoBody == [ok |-> FALSE, ent |-> ZeroEntity]

\* no request
NoRequest == [route |-> "none", idStr |-> <<>>, body |-> NoBody, rows0 |-> EmptyTable]

\* no handler running
NoHandler ==
    [pc |-> "idle", id |-> 0, ent |-> ZeroEntity, trace |-> <<>>, status |-> 0,
     out |-> <<>>, dberr |-> ErrNil]

StatusOK == 200
StatusCreated == 201
StatusNoContent == 204
StatusBadRequest == 400
StatusNotFound == 404
StatusInternalServerError == 500

\* the entity types the handlers are built for: the two of the hook tests
\* and two without hooks whose Name field carries a go-blar tag, as Secret
\* (hidden) and Quantity (readonly) do in example_main.go
HandlerTypes == {"MockEntityWithHooks", "SimpleEntity", "HiddenName", "ReadonlyName"}

\* the go-blar tag of the Name field of the type
NameTag(type) ==
    IF type = "HiddenName" THEN sHidden
    ELSE IF type = "ReadonlyName" THEN sReadonly
    ELSE <<>>

\* the FieldMeta of the Name field in the EntityMeta the handlers hold
NameFieldMeta(type) ==
    parseField([Name |-> <<"N","a","m","e">>, Type |-> "string", Index |-> <<1>>,
                PkgPath |-> <<>>, Tag |-> [blar |-> NameTag(type), gorm |-> <<>>]])

HttpInit ==
    /\ hMeta = "SimpleEntity"
    /\ hreq = NoRequest
    /\ hnd = NoHandler

\* the table after AutoMigrate, an engine that answers, no repository call
\* and no dispatch
CrudInit ==
    /\ rows = EmptyTable
    /\ dbUp = TRUE
    /\ repoDb = "nil"
    /\ repoRet = NoRepoRet
    /\ HookInit
    /\ HttpInit

(***************************************************************************)
(* State.  registry is the package-level map; metas is the heap of         *)
(* EntityMeta values, a *EntityMeta being a position in it.  pc, arg and   *)
(* local are each goroutine's position in Parse, its argument entity and   *)
(* the meta it has built; ret is what the step just taken returned from    *)
(* Parse, with the entity it was called with (NoRet when the step returned *)
(* nothing).  rets and stored                                              *)
(* record, since the last ClearRegistry, the (type, meta) pairs returned   *)
(* by calls that began after it and the (key, meta) pairs written to the   *)
(* map.  crashed is the runtime's fatal error on an unsynchronized map     *)
(* access.                                                                 *)
(***************************************************************************)
(***************************************************************************)
(* The router (RegisterEntityRoutes, toURLPath) and the App (goblar)       *)
(***************************************************************************)
\* the byte of an ASCII letter, digit or underscore
Ord(c) ==
    IF IsUpper(c) THEN 64 + (CHOOSE i \in DOMAIN UpperSeq : UpperSeq[i] = c)
    ELSE IF IsLower(c) THEN 96 + (CHOOSE i \in DOMAIN LowerSeq : LowerSeq[i] = c)
    ELSE IF IsDigit(c) THEN 48 + DigitValue(c)
    ELSE 95

\* toURLPath: a '-' (byte 45) before every uppercase rune but the first, then
\* byte(r + 'a' - 'A' + 1) for every rune; the result is a string of bytes
toURLPath(s) ==
    Concat([i \in DOMAIN s |->
               (IF i > 1 /\ IsUpper(s[i]) THEN <<45>> ELSE <<>>)
               \o <<(Ord(s[i]) + Ord("a") - Ord("A") + 1) % 256>>])

\* router.Post("/"+resourceName, ...), ..., router.Delete("/"+resourceName+"/{id}", ...):
\* a route is its method, the segment after the first "/", whether "/{id}"
\* follows, and the handler
RegisterEntityRoutes(name) ==
    LET resourceName == toURLPath(name) IN
    {[method |-> "POST", seg |-> resourceName, id |-> FALSE, handler |-> "CreateHandler"],
     [method |-> "GET", seg |-> resourceName, id |-> FALSE, handler |-> "ListHandler"],
     [method |-> "GET", seg |-> resourceName, id |-> TRUE, handler |-> "GetHandler"],
     [method |-> "PUT", seg |-> resourceName, id |-> TRUE, handler |-> "UpdateHandler"],
     [method |-> "DELETE", seg |-> resourceName, id |-> TRUE, handler |-> "DeleteHandler"]}

\* no RegisterEntityRoutes call made
RouteInit == rtIn = <<>> /\ rtOut = <<>>

\* before goblar.New: no App
NoApp == [made |-> FALSE, db |-> FALSE, addr |-> "", router |-> "nil",
          registry |-> EmptyRegistry]

\* no method of the App called yet
NoAppRet == [op |-> "none", state |-> "idle", models |-> <<>>, i |-> 0,
             err |-> ErrNil, run |-> FALSE, parsed |-> <<>>]

\* no request answered
NoResponse == [method |-> "", seg |-> <<>>, id |-> FALSE, handler |-> ""]

\* before App.Start: no http.Server
NoServer == [listening |-> FALSE, addr |-> "", handler |-> "nil",
             routes |-> {}, last |-> NoResponse]

AppInit ==
    /\ app = NoApp
    /\ appRet = NoAppRet
    /\ migrated = <<>>
    /\ server = NoServer

TopInit == RouteInit /\ AppInit

\* no toSnakeCase call under way
SnakeInit == snIn = <<>> /\ snOut = <<>>

RestInit == SnakeInit /\ preReset = {} /\ CrudInit /\ TopInit

TypeOK ==
    /\ DOMAIN registry \subseteq {RString(Resolve(v)) : v \in Values \ {[kind |-> "nil", type |-> 0]}}
    /\ \A k \in DOMAIN registry : registry[k] \in 1..Len(metas)
    /\ Len(metas) <= MaxMetas
    /\ pc \in [Procs -> {"idle", "miss", "built"}]
    /\ crashed \in BOOLEAN

Init ==
    /\ registry = EmptyRegistry
    /\ metas = <<>>
    /\ pc = [p \in Procs |-> "idle"]
    /\ arg = [p \in Procs |-> Idle]
    /\ ret = NoRet
    /\ rets = {}
    /\ stored = {}
    /\ crashed = FALSE
    /\ sfIn = NoField
    /\ fmOut = <<>>
    /\ RestInit

\* the calls in flight that may still allocate an EntityMeta
Pending == Cardinality({q \in Procs : pc[q] = "miss"})

\* what a return adds to rets: only calls on a struct type that saw no reset
Returned(p, m) ==
    IF arg[p].cleared THEN rets ELSE rets \cup {<<arg[p].v.type, m>>}

\* Parse, lines 14-23: resolve the type, look the key up, return on a hit.
\* reflect.TypeOf(nil) is nil and t.Kind() on it panics.
ParseLookup(p, v) ==
    /\ ~crashed
    /\ pc[p] = "idle"
    /\ IF v.kind = "nil"
       THEN /\ ret' = [kind |-> "panic", meta |-> 0, arg |-> v]
            /\ UNCHANGED <<pc, arg, rets>>
       ELSE LET key == RString(Resolve(v)) IN
            IF key \in DOMAIN registry
            THEN /\ ret' = [kind |-> "ok", meta |-> registry[key], arg |-> v]
                 /\ rets' = rets \cup {<<v.type, registry[key]>>}
                 /\ UNCHANGED <<pc, arg>>
            ELSE /\ Len(metas) + Pending < MaxMetas
                 /\ pc' = [pc EXCEPT ![p] = "miss"]
                 /\ arg' = [arg EXCEPT ![p] = [v |-> v, local |-> 0, cleared |-> FALSE]]
                 /\ ret' = NoRet
                 /\ UNCHANGED rets
    /\ UNCHANGED <<registry, metas, stored, crashed, fieldVars, restVars>>

\* Parse, lines 26-60: build the EntityMeta.  t.FieldByName panics on a type
\* that is not a struct.
ParseBuild(p) ==
    /\ ~crashed
    /\ pc[p] = "miss"
    /\ LET t == Resolve(arg[p].v) IN
       IF Kind(t) # "struct"
       THEN /\ ret' = [kind |-> "panic", meta |-> 0, arg |-> arg[p].v]
            /\ pc' = [pc EXCEPT ![p] = "idle"]
            /\ arg' = [arg EXCEPT ![p] = Idle]
            /\ UNCHANGED metas
       ELSE /\ metas' = Append(metas, ParsedMeta[t.base])
            /\ pc' = [pc EXCEPT ![p] = "built"]
            /\ arg' = [arg EXCEPT ![p].local = Len(metas) + 1]
            /\ ret' = NoRet
    /\ UNCHANGED <<registry, rets, stored, crashed, fieldVars, restVars>>

\* Parse, lines 62-65: registry[key] = meta; return meta, nil
ParseStore(p) ==
    /\ ~crashed
    /\ pc[p] = "built"
    /\ LET key == RString(Resolve(arg[p].v))
           m == arg[p].local
       IN /\ registry' = MapStore(registry, key, m)
          /\ stored' = stored \cup {<<key, m>>}
          /\ ret' = [kind |-> "ok", meta |-> m, arg |-> arg[p].v]
          /\ rets' = Returned(p, m)
    /\ pc' = [pc EXCEPT ![p] = "idle"]
    /\ arg' = [arg EXCEPT ![p] = Idle]
    /\ UNCHANGED <<metas, crashed, fieldVars, restVars>>

\* registry is a plain map: the store of goroutine p overlapping the store of
\* q (pc "built") or the lookup of q entering Parse (pc "idle") is a data
\* race, and the runtime may end the process with "concurrent map writes" or
\* "concurrent map read and map write" instead of completing either access
ParseFault(p, q) ==
    /\ ~crashed
    /\ p # q
    /\ pc[p] = "built"
    /\ pc[q] \in {"idle", "built"}
    /\ crashed' = TRUE
    /\ ret' = NoRet
    /\ UNCHANGED <<registry, metas, pc, arg, rets, stored, fieldVars, restVars>>

\* ClearRegistry: registry = make(map[string]*EntityMeta)
ClearRegistryStep ==
    /\ ~crashed
    /\ registry' = EmptyRegistry
    /\ rets' = {}
    /\ stored' = {}
    /\ arg' = [p \in Procs |-> [arg[p] EXCEPT !.cleared = (pc[p] # "idle")]]
    /\ ret' = NoRet
    /\ UNCHANGED <<metas, pc, crashed, fieldVars>>

ClearRegistry == ClearRegistryStep /\ UNCHANGED restVars

Next ==
    \/ \E p \in Procs, v \in Values : ParseLookup(p, v)
    \/ \E p \in Procs : ParseBuild(p)
    \/ \E p \in Procs : ParseStore(p)
    \/ \E p, q \in Procs : ParseFault(p, q)
    \/ ClearRegistry

Spec == Init /\ [][Next]_vars

(***************************************************************************)
(* Parse and ClearRegistry with the history of the resets: preReset is the *)
(* set of EntityMeta values that existed when ClearRegistry last ran       *)
(***************************************************************************)
ClearRegistryMarked ==
    /\ ClearRegistryStep
    /\ preReset' = 1..Len(metas)
    /\ UNCHANGED <<snakeVars, crudVars, topVars>>

NextReset ==
    \/ \E p \in Procs, v \in Values : ParseLookup(p, v)
    \/ \E p \in Procs : ParseBuild(p)
    \/ \E p \in Procs : ParseStore(p)
    \/ \E p, q \in Procs : ParseFault(p, q)
    \/ ClearRegistryMarked

SpecReset == Init /\ [][NextReset]_vars

(***************************************************************************)
(* parseField on its own, over every pair of tags of BlarTags and GormTags *)
(***************************************************************************)
InitField ==
    /\ registry = EmptyRegistry
    /\ metas = <<>>
    /\ pc = [p \in Procs |-> "idle"]
    /\ arg = [p \in Procs |-> Idle]
    /\ ret = NoRet
    /\ rets = {}
    /\ stored = {}
    /\ crashed = FALSE
    /\ sfIn \in FieldInputs
    /\ fmOut = <<>>
    /\ RestInit

ParseFieldCall ==
    /\ fmOut = <<>>
    /\ fmOut' = <<parseField(sfIn)>>
    /\ UNCHANGED <<sfIn, metaVars, restVars>>

NextField == ParseFieldCall

SpecField == InitField /\ [][NextField]_vars

(***************************************************************************)
(* toSnakeCase on its own, over the identifiers of the naming table and    *)
(* every identifier of up to MaxIdentLen characters drawn from an          *)
(* uppercase letter, a lowercase letter, a digit and the underscore        *)
(***************************************************************************)
IdentAlphabet == {"A", "b", "1", "_"}

sUserName == <<"U","s","e","r","N","a","m","e">>
sUser_Name == <<"u","s","e","r","_","n","a","m","e">>
sID == <<"I","D">>
sId == <<"i","d">>
sProduct == <<"P","r","o","d","u","c","t">>
sProductLower == <<"p","r","o","d","u","c","t">>
sHTTPServer == <<"H","T","T","P","S","e","r","v","e","r">>
sHttp_Server == <<"h","t","t","p","_","s","e","r","v","e","r">>

\* the naming transform table
NamingTable ==
    {<<sUserName, sUser_Name>>, <<sID, sId>>, <<sProduct, sProductLower>>,
     <<sHTTPServer, sHttp_Server>>}

Idents ==
    UNION {[1..k -> IdentAlphabet] : k \in 0..MaxIdentLen}
    \cup {row[1] : row \in NamingTable}

InitSnake ==
    /\ registry = EmptyRegistry
    /\ metas = <<>>
    /\ pc = [p \in Procs |-> "idle"]
    /\ arg = [p \in Procs |-> Idle]
    /\ ret = NoRet
    /\ rets = {}
    /\ stored = {}
    /\ crashed = FALSE
    /\ sfIn = NoField
    /\ fmOut = <<>>
    /\ snIn \in Idents
    /\ snOut = <<>>
    /\ preReset = {}
    /\ TopInit
    /\ CrudInit

ToSnakeCaseCall ==
    /\ snOut = <<>>
    /\ snOut' = <<toSnakeCase(snIn)>>
    /\ UNCHANGED <<snIn, metaVars, fieldVars, preReset, crudVars, topVars>>

NextSnake == ToSnakeCaseCall

SpecSnake == InitSnake /\ [][NextSnake]_vars

(***************************************************************************)
(* RegisterEntityRoutes on its own, over entity names                      *)
(***************************************************************************)
\* Go identifiers up to MaxIdentLen characters and the names of the types
RouteNames ==
    {s \in Idents : s # <<>> /\ ~IsDigit(s[1])} \cup {TypeName(t) : t \in TypeIds}

InitRoutes ==
    /\ registry = EmptyRegistry
    /\ metas = <<>>
    /\ pc = [p \in Procs |-> "idle"]
    /\ arg = [p \in Procs |-> Idle]
    /\ ret = NoRet
    /\ rets = {}
    /\ stored = {}
    /\ crashed = FALSE
    /\ sfIn = NoField
    /\ fmOut = <<>>
    /\ SnakeInit
    /\ preReset = {}
    /\ CrudInit
    /\ rtIn \in RouteNames
    /\ rtOut = <<>>
    /\ AppInit

\* RegisterEntityRoutes(router, handlers, meta) with meta.Name = rtIn
RegisterEntityRoutesCall ==
    /\ rtOut = <<>>
    /\ rtOut' = <<RegisterEntityRoutes(rtIn)>>
    /\ UNCHANGED <<rtIn, metaVars, fieldVars, snakeVars, preReset, crudVars, appVars>>

NextRoutes == RegisterEntityRoutesCall

SpecRoutes == InitRoutes /\ [][NextRoutes]_vars

\* the bytes of the name with every upper-case letter lowered
LowerBytes(name) == [i \in DOMAIN name |-> Ord(ToLowerRune(name[i]))]

\* the five CRUD routes under a segment
FiveRoutes(seg) ==
    {[method |-> "POST", seg |-> seg, id |-> FALSE, handler |-> "CreateHandler"],
     [method |-> "GET", seg |-> seg, id |-> FALSE, handler |-> "ListHandler"],
     [method |-> "GET", seg |-> seg, id |-> TRUE, handler |-> "GetHandler"],
     [method |-> "PUT", seg |-> seg, id |-> TRUE, handler |-> "UpdateHandler"],
     [method |-> "DELETE", seg |-> seg, id |-> TRUE, handler |-> "DeleteHandler"]}

(***************************************************************************)
(* The App: New, Register, Start and Run, and requests to the server Start *)
(* runs                                                                    *)
(***************************************************************************)
\* the longest list of models handed to Register over the life of an App
MaxModels == 2

ErrNoDB == "database not configured: use WithDB option"
ErrMigrate == "failed to migrate model"
ErrListen == "listen failed"

\* the models handed to Register: nil, pointers to entities (two of them
\* with the type string meta.Product, a third also named Product), a struct
\* passed by value and an int
ModelValues ==
    {[kind |-> "nil", type |-> 0],
     [kind |-> "ptr", type |-> 1],
     [kind |-> "ptr", type |-> 2],
     [kind |-> "ptr", type |-> 3],
     [kind |-> "val", type |-> 3],
     [kind |-> "ptr", type |-> 5],
     [kind |-> "val", type |-> 8]}

\* the argument lists of Register
ModelLists == UNION {[1..n -> ModelValues] : n \in 0..MaxModels}

\* meta.Parse run from entry to return by one goroutine: a panic, or the
\* cached descriptor, or a new descriptor stored under the type's string
Parse(reg, heap, v) ==
    IF v.kind = "nil"
    THEN [kind |-> "panic", registry |-> reg, metas |-> heap, meta |-> 0]
    ELSE LET t == Resolve(v)
             key == RString(t)
         IN IF key \in DOMAIN reg
            THEN [kind |-> "ok", registry |-> reg, metas |-> heap, meta |-> reg[key]]
            ELSE IF Kind(t) # "struct"
            THEN [kind |-> "panic", registry |-> reg, metas |-> heap, meta |-> 0]
            ELSE [kind |-> "ok",
                  registry |-> MapStore(reg, key, Len(heap) + 1),
                  metas |-> Append(heap, ParsedMeta[t.base]),
                  meta |-> Len(heap) + 1]

\* New: newConfig, the options applied in order, then the App.  withDB says
\* whether WithDB(db) with a live db is among the options, addr is "none"
\* without WithAddress and its argument otherwise.
NewApp(withDB, addr) ==
    [made |-> TRUE,
     db |-> withDB,
     addr |-> IF addr = "none" THEN ":8080" ELSE addr,
     router |-> "nil",
     registry |-> EmptyRegistry]

\* Register entered on any App, the driver handle not looked at
RegisterEnterNoDbCheck(a, models, run) ==
    [op |-> "Register", state |-> "running", models |-> models, i |-> 1,
     err |-> ErrNil, run |-> run, parsed |-> <<>>]

\* Register, lines 37-39: without a driver return the error, else enter the
\* loop at the first model
RegisterEnter(a, models, run) ==
    IF ~a.db
    THEN [op |-> "Register", state |-> "returned", models |-> models, i |-> 0,
          err |-> ErrNoDB, run |-> run, parsed |-> <<>>]
    ELSE [op |-> "Register", state |-> "running", models |-> models, i |-> 1,
          err |-> ErrNil, run |-> run, parsed |-> <<>>]

InitApp ==
    /\ registry = EmptyRegistry
    /\ metas = <<>>
    /\ pc = [p \in Procs |-> "idle"]
    /\ arg = [p \in Procs |-> Idle]
    /\ ret = NoRet
    /\ rets = {}
    /\ stored = {}
    /\ crashed = FALSE
    /\ sfIn = NoField
    /\ fmOut = <<>>
    /\ SnakeInit
    /\ preReset = {}
    /\ CrudInit
    /\ RouteInit
    /\ AppInit

\* what no method of the App touches
nonAppVars ==
    <<pc, arg, ret, rets, stored, crashed, fieldVars, snakeVars, preReset,
      crudVars, routeVars>>

\* app := goblar.New(opts...)
New(withDB, addr) ==
    /\ ~app.made
    /\ app' = NewApp(withDB, addr)
    /\ UNCHANGED <<appRet, migrated, server, registry, metas, nonAppVars>>

\* app.Register(models...) called by the program
Register(models) ==
    /\ app.made
    /\ ~appRet.run
    /\ appRet.state \in {"idle", "returned"}
    /\ ~server.listening
    /\ Len(migrated) + Len(models) <= MaxModels
    /\ appRet' = RegisterEnter(app, models, FALSE)
    /\ UNCHANGED <<app, migrated, server, registry, metas, nonAppVars>>

\* one turn of the loop of Register, lines 42-55: Parse the model (a panic
\* of Parse ends the call), AutoMigrate it (the driver may fail), store the
\* descriptor under its Name
RegisterModel(migrateOk) ==
    /\ appRet.op = "Register"
    /\ appRet.state = "running"
    /\ appRet.i <= Len(appRet.models)
    /\ LET model == appRet.models[appRet.i]
           p == Parse(registry, metas, model)
       IN /\ Len(p.metas) <= MaxMetas
          /\ registry' = p.registry
          /\ metas' = p.metas
          /\ IF p.kind = "panic"
             THEN /\ appRet' = [appRet EXCEPT !.state = "panicked",
                                             !.parsed = Append(@, model)]
                  /\ UNCHANGED <<app, migrated>>
             ELSE /\ migrated' = Append(migrated, [model |-> model, ok |-> migrateOk])
                  /\ IF ~migrateOk
                     THEN /\ appRet' = [appRet EXCEPT !.state = "returned",
                                                     !.err = ErrMigrate,
                                                     !.parsed = Append(@, model)]
                          /\ UNCHANGED app
                     ELSE /\ app' = [app EXCEPT !.registry =
                                        MapStore(@, metas'[p.meta].Name, p.meta)]
                          /\ appRet' = [appRet EXCEPT !.i = @ + 1,
                                                     !.parsed = Append(@, model)]
    /\ UNCHANGED <<server, nonAppVars>>

\* Register, line 57: return nil after the last model
RegisterReturn ==
    /\ appRet.op = "Register"
    /\ appRet.state = "running"
    /\ appRet.i > Len(appRet.models)
    /\ appRet' = [appRet EXCEPT !.state = "returned"]
    /\ UNCHANGED <<app, migrated, server, registry, metas, nonAppVars>>

\* app.Start(), called by the program or by Run after Register returned nil
\* (run.go:7-10): default the address, hand a.router to an http.Server and
\* ListenAndServe, which blocks while it serves or returns an error.  A nil
\* Handler makes the server use http.DefaultServeMux, on which nothing is
\* registered.
Start(listens) ==
    /\ app.made
    /\ appRet.state \in {"idle", "returned"}
    /\ appRet.run => (appRet.op = "Register" /\ appRet.err = ErrNil)
    /\ ~server.listening
    /\ LET addr == IF app.addr = "" THEN ":8080" ELSE app.addr IN
       /\ app' = [app EXCEPT !.addr = addr]
       /\ server' = [listening |-> listens,
                     addr |-> addr,
                     handler |-> IF app.router = "nil" THEN "DefaultServeMux" ELSE app.router,
                     routes |-> {},
                     last |-> NoResponse]
       /\ appRet' = [appRet EXCEPT !.op = "Start",
                                  !.state = IF listens THEN "running" ELSE "returned",
                                  !.err = IF listens THEN ErrNil ELSE ErrListen]
    /\ UNCHANGED <<migrated, registry, metas, nonAppVars>>

\* goblar.Run(models...): app := New(); app.Register(models...)
Run(models) ==
    /\ ~app.made
    /\ Len(models) <= MaxModels
    /\ app' = NewApp(FALSE, "none")
    /\ appRet' = RegisterEnter(app', models, TRUE)
    /\ UNCHANGED <<migrated, server, registry, metas, nonAppVars>>

\* the path segments a client asks for: the one the router derives from a
\* registered name and the lowercased name of the documentation
RequestSegs ==
    {toURLPath(n) : n \in DOMAIN app.registry}
      \cup {LowerBytes(n) : n \in DOMAIN app.registry}

\* a request to the listening server: the handler of the route that matches
\* method and path, or the mux's NotFound handler
Request(method, seg, id) ==
    /\ server.listening
    /\ LET hits == {r \in server.routes :
                       r.method = method /\ r.seg = seg /\ r.id = id}
       IN server' = [server EXCEPT !.last =
                        [method |-> method, seg |-> seg, id |-> id,
                         handler |-> IF hits = {} THEN "NotFound"
                                     ELSE (CHOOSE r \in hits : TRUE).handler]]
    /\ UNCHANGED <<app, appRet, migrated, registry, metas, nonAppVars>>

NextApp ==
    \/ \E withDB \in BOOLEAN, addr \in {"none", "", ":9090"} : New(withDB, addr)
    \/ \E models \in ModelLists : Register(models)
    \/ \E migrateOk \in BOOLEAN : RegisterModel(migrateOk)
    \/ RegisterReturn
    \/ \E listens \in BOOLEAN : Start(listens)
    \/ \E models \in ModelLists : Run(models)
    \/ \E method \in {"POST", "GET", "PUT", "DELETE"}, seg \in RequestSegs, id \in BOOLEAN :
           Request(method, seg, id)

SpecApp == InitApp /\ [][NextApp]_vars

(***************************************************************************)
(* The generic Repository over TestUser: New(db, meta) with a nil or a     *)
(* live driver handle, then any sequence of its six operations, while the  *)
(* storage engine may stop and resume answering                            *)
(***************************************************************************)
InitRepo ==
    /\ registry = EmptyRegistry
    /\ metas = <<>>
    /\ pc = [p \in Procs |-> "idle"]
    /\ arg = [p \in Procs |-> Idle]
    /\ ret = NoRet
    /\ rets = {}
    /\ stored = {}
    /\ crashed = FALSE
    /\ sfIn = NoField
    /\ fmOut = <<>>
    /\ SnakeInit
    /\ preReset = {}
    /\ TopInit
    /\ rows = EmptyTable
    /\ dbUp = TRUE
    /\ repoDb \in {"nil", "db"}
    /\ repoRet = NoRepoRet
    /\ HookInit
    /\ HttpInit

\* what a Repository operation returns when r.db == nil
InvalidDB(op, e, id) ==
    [NoRepoRet EXCEPT !.op = op, !.in = e, !.ent = e, !.id = id,
                      !.err = ErrInvalidDB, !.up = dbUp, !.before = rows]

\* Count without the test of r.db
CountNoNilCheck ==
    /\ LET r == DbCount(rows, dbUp) IN
       repoRet' = [NoRepoRet EXCEPT !.op = "Count", !.err = r.err, !.count = r.count,
                                    !.called = TRUE, !.up = dbUp, !.before = rows]
    /\ UNCHANGED <<rows, dbUp, repoDb, nonRepoVars>>

\* Update through db.Updates, which skips zero-valued fields
UpdateNonZeroFields(e) ==
    /\ IF repoDb = "nil"
       THEN /\ repoRet' = InvalidDB("Update", e, 0)
            /\ UNCHANGED rows
       ELSE LET r == DbUpdates(rows, dbUp, e.ID, e) IN
            /\ rows' = r.rows
            /\ repoRet' = [NoRepoRet EXCEPT !.op = "Update", !.in = e, !.ent = e,
                                            !.err = r.err, !.called = TRUE,
                                            !.up = dbUp, !.before = rows]
    /\ UNCHANGED <<dbUp, repoDb, nonRepoVars>>

\* Delete that looks the row up first and reports a missing one
DeleteChecked(id) ==
    /\ IF repoDb = "nil"
       THEN /\ repoRet' = InvalidDB("Delete", ZeroEntity, id)
            /\ UNCHANGED rows
       ELSE LET f == DbFirst(rows, dbUp, id)
                r == IF f.err # ErrNil THEN [rows |-> rows, err |-> f.err]
                     ELSE DbDelete(rows, dbUp, id)
            IN /\ rows' = r.rows
               /\ repoRet' = [NoRepoRet EXCEPT !.op = "Delete", !.id = id, !.err = r.err,
                                               !.called = TRUE, !.up = dbUp, !.before = rows]
    /\ UNCHANGED <<dbUp, repoDb, nonRepoVars>>

\* GetAll through db.First, which reads one row
GetAllFirstRow ==
    /\ IF repoDb = "nil"
       THEN repoRet' = InvalidDB("GetAll", ZeroEntity, 0)
       ELSE LET r == DbFind(rows, dbUp) IN
            repoRet' = [NoRepoRet EXCEPT !.op = "GetAll", !.err = r.err,
                                         !.out = IF r.err # ErrNil \/ r.list = <<>>
                                                 THEN <<>> ELSE <<Head(r.list)>>,
                                         !.called = TRUE, !.up = dbUp, !.before = rows]
    /\ UNCHANGED <<rows, dbUp, repoDb, nonRepoVars>>

\* Repository.Create
Create(e) ==
    /\ IF repoDb = "nil"
       THEN /\ repoRet' = InvalidDB("Create", e, 0)
            /\ UNCHANGED rows
       ELSE \E fresh \in (IF e.ID = 0 /\ dbUp THEN FreshIds(rows) ELSE {0}) :
            LET r == DbCreate(rows, dbUp, e, fresh) IN
            /\ rows' = r.rows
            /\ repoRet' = [NoRepoRet EXCEPT !.op = "Create", !.in = e, !.ent = r.ent,
                                            !.err = r.err, !.called = TRUE,
                                            !.up = dbUp, !.before = rows]
    /\ UNCHANGED <<dbUp, repoDb, nonRepoVars>>

\* Repository.GetByID
GetByID(id) ==
    /\ IF repoDb = "nil"
       THEN repoRet' = InvalidDB("GetByID", ZeroEntity, id)
       ELSE LET r == DbFirst(rows, dbUp, id) IN
            repoRet' = [NoRepoRet EXCEPT !.op = "GetByID", !.id = id, !.err = r.err,
                                         !.out = IF r.err # ErrNil THEN <<>> ELSE <<r.ent>>,
                                         !.called = TRUE, !.up = dbUp, !.before = rows]
    /\ UNCHANGED <<rows, dbUp, repoDb, nonRepoVars>>

\* Repository.GetAll
GetAll ==
    /\ IF repoDb = "nil"
       THEN repoRet' = InvalidDB("GetAll", ZeroEntity, 0)
       ELSE LET r == DbFind(rows, dbUp) IN
            repoRet' = [NoRepoRet EXCEPT !.op = "GetAll", !.err = r.err,
                                         !.out = IF r.err # ErrNil THEN <<>> ELSE r.list,
                                         !.called = TRUE, !.up = dbUp, !.before = rows]
    /\ UNCHANGED <<rows, dbUp, repoDb, nonRepoVars>>

\* Repository.Update
Update(e) ==
    /\ IF repoDb = "nil"
       THEN /\ repoRet' = InvalidDB("Update", e, 0)
            /\ UNCHANGED rows
       ELSE \E fresh \in (IF e.ID = 0 /\ dbUp THEN FreshIds(rows) ELSE {0}) :
            LET r == DbSave(rows, dbUp, e, fresh) IN
            /\ rows' = r.rows
            /\ repoRet' = [NoRepoRet EXCEPT !.op = "Update", !.in = e, !.ent = r.ent,
                                            !.err = r.err, !.called = TRUE,
                                            !.up = dbUp, !.before = rows]
    /\ UNCHANGED <<dbUp, repoDb, nonRepoVars>>

\* Repository.Delete
Delete(id) ==
    /\ IF repoDb = "nil"
       THEN /\ repoRet' = InvalidDB("Delete", ZeroEntity, id)
            /\ UNCHANGED rows
       ELSE LET r == DbDelete(rows, dbUp, id) IN
            /\ rows' = r.rows
            /\ repoRet' = [NoRepoRet EXCEPT !.op = "Delete", !.id = id, !.err = r.err,
                                            !.called = TRUE, !.up = dbUp, !.before = rows]
    /\ UNCHANGED <<dbUp, repoDb, nonRepoVars>>

\* Repository.Count
Count ==
    /\ IF repoDb = "nil"
       THEN repoRet' = InvalidDB("Count", ZeroEntity, 0)
       ELSE LET r == DbCount(rows, dbUp) IN
            repoRet' = [NoRepoRet EXCEPT !.op = "Count", !.err = r.err, !.count = r.count,
                                         !.called = TRUE, !.up = dbUp, !.before = rows]
    /\ UNCHANGED <<rows, dbUp, repoDb, nonRepoVars>>

\* the storage engine stops answering (connection lost, context cancelled)
DriverDown ==
    /\ dbUp
    /\ dbUp' = FALSE
    /\ repoRet' = NoRepoRet
    /\ UNCHANGED <<rows, repoDb, nonRepoVars>>

\* and answers again
DriverUp ==
    /\ ~dbUp
    /\ dbUp' = TRUE
    /\ repoRet' = NoRepoRet
    /\ UNCHANGED <<rows, repoDb, nonRepoVars>>

NextRepo ==
    \/ \E e \in Entities : Create(e)
    \/ \E id \in Ids : GetByID(id)
    \/ GetAll
    \/ \E e \in Entities : Update(e)
    \/ \E id \in Ids : Delete(id)
    \/ Count
    \/ DriverDown
    \/ DriverUp

SpecRepo == InitRepo /\ [][NextRepo]_vars

(***************************************************************************)
(* The hook dispatchers (internal/hooks) called in any order on one entity *)
(***************************************************************************)
InitHooks ==
    /\ registry = EmptyRegistry
    /\ metas = <<>>
    /\ pc = [p \in Procs |-> "idle"]
    /\ arg = [p \in Procs |-> Idle]
    /\ ret = NoRet
    /\ rets = {}
    /\ stored = {}
    /\ crashed = FALSE
    /\ sfIn = NoField
    /\ fmOut = <<>>
    /\ SnakeInit
    /\ preReset = {}
    /\ TopInit
    /\ rows = EmptyTable
    /\ dbUp = TRUE
    /\ repoDb = "nil"
    /\ repoRet = NoRepoRet
    /\ hkEntity \in HookEntities
    /\ hkRet = NoHookRet
    /\ hkDone = {}
    /\ HttpInit

\* if h, ok := entity.(goblar.<h>); ok { return h.<h>(ctx, tx) }; return nil
\* in the dispatcher named d
CallHook(d, h) ==
    /\ IF Implements(hkEntity, h)
       THEN LET r == Invoke(hkEntity, h) IN
            /\ hkEntity' = r.ent
            /\ hkRet' = [disp |-> d, err |-> r.err, in |-> hkEntity,
                         calls |-> [x \in HookNames |-> IF x = h THEN 1 ELSE 0]]
       ELSE /\ hkEntity' = hkEntity
            /\ hkRet' = [disp |-> d, err |-> ErrNil, in |-> hkEntity,
                         calls |-> [x \in HookNames |-> 0]]
    /\ hkDone' = hkDone \cup {d}
    /\ UNCHANGED nonHookVars

\* CallAfterCreate asserting and calling goblar.BeforeCreate
CallAfterCreateWrongHook == CallHook("CallAfterCreate", "BeforeCreate")

CallBeforeCreate == CallHook("CallBeforeCreate", "BeforeCreate")

CallAfterCreate == CallHook("CallAfterCreate", "AfterCreate")

CallBeforeUpdate == CallHook("CallBeforeUpdate", "BeforeUpdate")

CallAfterUpdate == CallHook("CallAfterUpdate", "AfterUpdate")

CallBeforeDelete == CallHook("CallBeforeDelete", "BeforeDelete")

CallAfterDelete == CallHook("CallAfterDelete", "AfterDelete")

NextHooks ==
    \/ CallBeforeCreate
    \/ CallAfterCreate
    \/ CallBeforeUpdate
    \/ CallAfterUpdate
    \/ CallBeforeDelete
    \/ CallAfterDelete

SpecHooks == InitHooks /\ [][NextHooks]_vars

(***************************************************************************)
(* The CRUD handlers serving one request at a time for one entity type.    *)
(* A handler is followed call by call: hnd.pc is the call it makes next,   *)
(* hnd.trace the hooks it has invoked and the storage calls it has made,   *)
(* each with the error it returned, hnd.dberr the error of its last        *)
(* storage call, hnd.status and hnd.out the response.  hreq.rows0 is the table when the request arrived.  The   *)
(* storage engine may stop and resume answering between the calls.         *)
(***************************************************************************)
InitHttp ==
    /\ registry = EmptyRegistry
    /\ metas = <<>>
    /\ pc = [p \in Procs |-> "idle"]
    /\ arg = [p \in Procs |-> Idle]
    /\ ret = NoRet
    /\ rets = {}
    /\ stored = {}
    /\ crashed = FALSE
    /\ sfIn = NoField
    /\ fmOut = <<>>
    /\ SnakeInit
    /\ preReset = {}
    /\ TopInit
    /\ rows = EmptyTable
    /\ dbUp = TRUE
    /\ repoDb = "nil"
    /\ repoRet = NoRepoRet
    /\ HookInit
    /\ hMeta \in HandlerTypes
    /\ hreq = NoRequest
    /\ hnd = NoHandler

\* makeEntityInstance: reflect.New(entityMeta.Type).Interface(), a pointer
HandlerEntity ==
    [type |-> hMeta, ptr |-> TRUE, ShouldFail |-> FALSE, Price |-> 0, Called |-> NoneCalled]

\* the router hands a request to the handler of its route
Serve(route, idStr, body) ==
    /\ hnd.pc \in {"idle", "done"}
    /\ hreq' = [route |-> route, idStr |-> idStr, body |-> body, rows0 |-> rows]
    /\ hnd' = [NoHandler EXCEPT !.pc = "start"]
    /\ UNCHANGED <<hMeta, dbVars, nonHttpVars>>

\* http.Error(w, ..., status) or WriteHeader(status) with the encoded body;
\* the handler returns
Respond(status, out) == hnd' = [hnd EXCEPT !.pc = "done", !.status = status, !.out = out]

\* a hook call whose error is dropped
CallHookIgnoringError(h, next) ==
    IF Implements(HandlerEntity, h)
    THEN \E err \in {ErrNil, MockError(h)} :
         hnd' = [hnd EXCEPT !.pc = next,
                            !.trace = Append(hnd.trace, [op |-> h, err |-> err])]
    ELSE hnd' = [hnd EXCEPT !.pc = next]

\* a hook call whose error is answered as a client error
CallHookAnswering400(h, next) ==
    IF Implements(HandlerEntity, h)
    THEN \E err \in {ErrNil, MockError(h)} :
         IF err # ErrNil
         THEN hnd' = [hnd EXCEPT !.pc = "done", !.status = StatusBadRequest,
                                 !.trace = Append(hnd.trace, [op |-> h, err |-> err])]
         ELSE hnd' = [hnd EXCEPT !.pc = next,
                                 !.trace = Append(hnd.trace, [op |-> h, err |-> err])]
    ELSE hnd' = [hnd EXCEPT !.pc = next]

\* hooks.Call<h>(ctx, entity, h.db) and `if err != nil`: the hook, when the
\* entity has it, runs and may fail; a failure is answered with 500
CallHookThen(h, next) ==
    IF Implements(HandlerEntity, h)
    THEN \E err \in {ErrNil, MockError(h)} :
         IF err # ErrNil
         THEN hnd' = [hnd EXCEPT !.pc = "done", !.status = StatusInternalServerError,
                                 !.trace = Append(hnd.trace, [op |-> h, err |-> err])]
         ELSE hnd' = [hnd EXCEPT !.pc = next,
                                 !.trace = Append(hnd.trace, [op |-> h, err |-> err])]
    ELSE hnd' = [hnd EXCEPT !.pc = next]

\* CreateHandler
CreateHandler ==
    /\ hreq.route = "POST /"
    /\ \/ /\ hnd.pc = "start"
          /\ IF ~hreq.body.ok
             THEN Respond(StatusBadRequest, <<>>)
             ELSE hnd' = [hnd EXCEPT !.pc = "before", !.ent = hreq.body.ent]
          /\ UNCHANGED rows
       \/ /\ hnd.pc = "before"
          /\ CallHookThen("BeforeCreate", "store")
          /\ UNCHANGED rows
       \/ /\ hnd.pc = "store"
          /\ \E fresh \in (IF hnd.ent.ID = 0 /\ dbUp THEN FreshIds(rows) ELSE {0}) :
             LET r == DbCreate(rows, dbUp, hnd.ent, fresh) IN
             /\ rows' = r.rows
             /\ hnd' = [hnd EXCEPT !.pc = IF r.err # ErrNil THEN "done" ELSE "after",
                                   !.status = IF r.err # ErrNil
                                              THEN StatusInternalServerError ELSE 0,
                                   !.ent = r.ent, !.dberr = r.err,
                                   !.trace = Append(hnd.trace, [op |-> "Create", err |-> r.err])]
       \/ /\ hnd.pc = "after"
          /\ CallHookThen("AfterCreate", "respond")
          /\ UNCHANGED rows
       \/ /\ hnd.pc = "respond"
          /\ Respond(StatusCreated, <<hnd.ent>>)
          /\ UNCHANGED rows
    /\ UNCHANGED <<hMeta, hreq, dbUp, nonHttpVars>>

\* ListHandler
ListHandler ==
    /\ hreq.route = "GET /"
    /\ hnd.pc = "start"
    /\ LET r == DbFind(rows, dbUp) IN
       hnd' = [hnd EXCEPT !.pc = "done", !.dberr = r.err,
                          !.trace = Append(hnd.trace, [op |-> "Find", err |-> r.err]),
                          !.status = IF r.err # ErrNil
                                     THEN StatusInternalServerError ELSE StatusOK,
                          !.out = r.list]
    /\ UNCHANGED <<hMeta, hreq, dbVars, nonHttpVars>>

\* every error of First answered alike
FirstStatusAlways500(err) == StatusInternalServerError

\* the storage error of First as a status
FirstStatus(err) ==
    IF err = ErrRecordNotFound THEN StatusNotFound ELSE StatusInternalServerError

\* GetHandler
GetHandler ==
    /\ hreq.route = "GET /{id}"
    /\ \/ /\ hnd.pc = "start"
          /\ LET id == ParseInt(hreq.idStr) IN
             IF ~id.ok
             THEN Respond(StatusBadRequest, <<>>)
             ELSE hnd' = [hnd EXCEPT !.pc = "load", !.id = id.n]
       \/ /\ hnd.pc = "load"
          /\ LET r == DbFirst(rows, dbUp, hnd.id) IN
             hnd' = [hnd EXCEPT !.pc = "done", !.dberr = r.err, !.ent = r.ent,
                                !.trace = Append(hnd.trace, [op |-> "First", err |-> r.err]),
                                !.status = IF r.err # ErrNil
                                           THEN FirstStatus(r.err) ELSE StatusOK,
                                !.out = IF r.err # ErrNil THEN <<>> ELSE <<r.ent>>]
    /\ UNCHANGED <<hMeta, hreq, dbVars, nonHttpVars>>

\* UpdateHandler
UpdateHandler ==
    /\ hreq.route = "PUT /{id}"
    /\ \/ /\ hnd.pc = "start"
          /\ LET id == ParseInt(hreq.idStr) IN
             IF ~id.ok \/ ~hreq.body.ok
             THEN Respond(StatusBadRequest, <<>>)
             ELSE hnd' = [hnd EXCEPT !.pc = "before", !.id = id.n, !.ent = hreq.body.ent]
          /\ UNCHANGED rows
       \/ /\ hnd.pc = "before"
          /\ CallHookThen("BeforeUpdate", "store")
          /\ UNCHANGED rows
       \/ /\ hnd.pc = "store"
          /\ LET r == DbUpdates(rows, dbUp, hnd.id, hnd.ent) IN
             /\ rows' = r.rows
             /\ hnd' = [hnd EXCEPT !.pc = IF r.err # ErrNil THEN "done" ELSE "after",
                                   !.status = IF r.err # ErrNil
                                              THEN StatusInternalServerError ELSE 0,
                                   !.dberr = r.err,
                                   !.trace = Append(hnd.trace, [op |-> "Updates", err |-> r.err])]
       \/ /\ hnd.pc = "after"
          /\ CallHookThen("AfterUpdate", "respond")
          /\ UNCHANGED rows
       \/ /\ hnd.pc = "respond"
          /\ Respond(StatusOK, <<hnd.ent>>)
          /\ UNCHANGED rows
    /\ UNCHANGED <<hMeta, hreq, dbUp, nonHttpVars>>

\* DeleteHandler
DeleteHandler ==
    /\ hreq.route = "DELETE /{id}"
    /\ \/ /\ hnd.pc = "start"
          /\ LET id == ParseInt(hreq.idStr) IN
             IF ~id.ok
             THEN Respond(StatusBadRequest, <<>>)
             ELSE hnd' = [hnd EXCEPT !.pc = "load", !.id = id.n]
          /\ UNCHANGED rows
       \/ /\ hnd.pc = "load"
          /\ LET r == DbFirst(rows, dbUp, hnd.id) IN
             hnd' = [hnd EXCEPT !.pc = IF r.err # ErrNil THEN "done" ELSE "before",
                                !.status = IF r.err # ErrNil THEN FirstStatus(r.err) ELSE 0,
                                !.dberr = r.err, !.ent = r.ent,
                                !.trace = Append(hnd.trace, [op |-> "First", err |-> r.err])]
          /\ UNCHANGED rows
       \/ /\ hnd.pc = "before"
          /\ CallHookThen("BeforeDelete", "store")
          /\ UNCHANGED rows
       \/ /\ hnd.pc = "store"
          /\ LET r == DbDelete(rows, dbUp, hnd.id) IN
             /\ rows' = r.rows
             /\ hnd' = [hnd EXCEPT !.pc = IF r.err # ErrNil THEN "done" ELSE "after",
                                   !.status = IF r.err # ErrNil
                                              THEN StatusInternalServerError ELSE 0,
                                   !.dberr = r.err,
                                   !.trace = Append(hnd.trace, [op |-> "Delete", err |-> r.err])]
       \/ /\ hnd.pc = "after"
          /\ CallHookThen("AfterDelete", "respond")
          /\ UNCHANGED rows
       \/ /\ hnd.pc = "respond"
          /\ Respond(StatusNoContent, <<>>)
          /\ UNCHANGED rows
    /\ UNCHANGED <<hMeta, hreq, dbUp, nonHttpVars>>

NextHttp ==
    \/ \E body \in Bodies : Serve("POST /", <<>>, body)
    \/ Serve("GET /", <<>>, NoBody)
    \/ \E idStr \in IdStrings : Serve("GET /{id}", idStr, NoBody)
    \/ \E idStr \in IdStrings, body \in Bodies : Serve("PUT /{id}", idStr, body)
    \/ \E idStr \in IdStrings : Serve("DELETE /{id}", idStr, NoBody)
    \/ CreateHandler
    \/ ListHandler
    \/ GetHandler
    \/ UpdateHandler
    \/ DeleteHandler
    \/ DriverDown
    \/ DriverUp

SpecHttp == InitHttp /\ [][NextHttp]_vars

(***************************************************************************)
(* What the claims speak of, stated on the declarations themselves         *)
(***************************************************************************)
\* the trimmed semicolon-separated fragments of a tag
Fragments(tag) ==
    IF tag = <<>> THEN {} ELSE {TrimSpace(Split(tag)[i]) : i \in DOMAIN Split(tag)}

\* the declared fields of type t that are exported, in declaration order
ExportedFields(t) ==
    SelectSeq(Types[t].fields, LAMBDA f : IsUpper(f.Name[1]))

\* a declared field marked primary key: the fragment pk in its go-blar tag,
\* or the modifier primaryKey in its gorm tag
MarkedPK(f) == sPk \in Fragments(f.blar) \/ sPrimaryKey \in Fragments(f.gorm)

\* the <name>s of the table:<name> fragments of a gorm tag
TableNames(tag) ==
    {TrimPrefix(fr, sTableColon) : fr \in {g \in Fragments(tag) : HasPrefix(g, sTableColon)}}

DefaultTableName(t) == toSnakeCase(Types[t].name) \o sPlural

IsStructInput(v) ==
    v.kind \in {"val", "ptr"} /\ v.type \in TypeIds /\ Types[v.type].kind = "struct"

\* C1: two Parse calls for the same type with no ClearRegistry between them
\* return the same *EntityMeta.
C1_SameInstance ==
    \A r1, r2 \in rets : r1[1] = r2[1] => r1[2] = r2[2]

\* C2: the registry is keyed by type identity: the descriptor returned for a
\* value of type T has Type T, and two distinct types never receive the same
\* descriptor.
C2_KeyedByType ==
    /\ ret.kind = "ok" => metas[ret.meta].Type = ret.arg.type
    /\ \A r1, r2 \in rets : r1[2] = r2[2] => r1[1] = r2[1]

\* C3: between resets at most one EntityMeta is ever stored in the registry
\* under one key, whatever the interleaving of concurrent Parse calls.
C3_AtMostOneStored ==
    \A s1, s2 \in stored : s1[1] = s2[1] => s1[2] = s2[2]

\* C4: Parse never panics: it returns a ParseError for an input that does not
\* resolve to a struct by one dereference (a primitive, nil, a pointer to a
\* pointer), and a nil error for a struct or pointer to struct.
C4_ParseError ==
    ret.kind # "none" =>
        IF IsStructInput(ret.arg) THEN ret.kind = "ok" ELSE ret.kind = "error"

\* C5: when several fields are marked primary key, PKField is the first of
\* them in declaration order.
C5_FirstPKWins ==
    \A i \in DOMAIN metas :
        LET pks == {j \in DOMAIN metas[i].Fields : metas[i].Fields[j].IsPK}
        IN Cardinality(pks) > 1 =>
               /\ metas[i].PKField \in pks
               /\ \A j \in pks : metas[i].PKField <= j

\* C6: a field has IsPK iff its go-blar tag has the fragment pk or its gorm
\* tag carries the primaryKey modifier; PKField points at such a field iff one
\* exists and is nil otherwise.
C6_PKDetection ==
    \A i \in DOMAIN metas :
        LET m == metas[i]
            decl == ExportedFields(m.Type)
        IN /\ Len(m.Fields) = Len(decl)
           /\ \A j \in DOMAIN m.Fields :
                  j \in DOMAIN decl => (m.Fields[j].IsPK <=> MarkedPK(decl[j]))
           /\ (m.PKField # 0) <=> (\E j \in DOMAIN decl : MarkedPK(decl[j]))
           /\ m.PKField # 0 =>
                  /\ m.PKField \in DOMAIN m.Fields
                  /\ m.Fields[m.PKField].IsPK

\* the struct types with no field named gorm that carries a table: fragment
NoOverride ==
    {t \in TypeIds :
        /\ Types[t].kind = "struct"
        /\ \A k \in DOMAIN Types[t].fields :
               Types[t].fields[k].Name = sGorm => TableNames(Types[t].fields[k].gorm) = {}}

\* toSnakeCase of each type's name, followed by s
SnakePlural == [t \in TypeIds |-> toSnakeCase(TypeName(t)) \o sPlural]

\* C7: without a table-name override TableName is toSnakeCase(Name) followed
\* by s; parsing User{ID,Name,Email} and Product{ID,Name,Price} gives users
\* and products, each with a PKField named ID.
C7_DefaultTableName ==
    /\ \A i \in DOMAIN metas :
           metas[i].Type \in NoOverride =>
               metas[i].TableName = SnakePlural[metas[i].Type]
    /\ \A i \in DOMAIN metas :
           LET m == metas[i] IN
           /\ Types[m.Type] = UserDecl =>
                  /\ m.TableName = <<"u","s","e","r","s">>
                  /\ m.PKField # 0
                  /\ m.Fields[m.PKField].Name = <<"I","D">>
           /\ Types[m.Type] = ProductBasic =>
                  /\ m.TableName = <<"p","r","o","d","u","c","t","s">>
                  /\ m.PKField # 0
                  /\ m.Fields[m.PKField].Name = <<"I","D">>
    /\ (ret.kind = "ok" /\ Types[ret.arg.type] = UserDecl) =>
           metas[ret.meta].TableName = <<"u","s","e","r","s">>
    /\ (ret.kind = "ok" /\ Types[ret.arg.type] = ProductBasic) =>
           metas[ret.meta].TableName = <<"p","r","o","d","u","c","t","s">>

\* C7 witness: Parse has returned the descriptors of User and of Product
C7_Witness ==
    /\ ret.kind = "ok"
    /\ Types[ret.arg.type] = UserDecl
    /\ \E i \in DOMAIN metas : Types[metas[i].Type] = ProductBasic

\* C8 as stated: a table:<name> fragment in a gorm tag of the entity's
\* declaration makes TableName <name>; without one the default is kept.
C8_AnyGormTableTag ==
    \A i \in DOMAIN metas :
        LET m == metas[i]
            names == UNION {TableNames(Types[m.Type].fields[k].gorm) :
                                k \in DOMAIN Types[m.Type].fields}
        IN IF names = {} THEN m.TableName = DefaultTableName(m.Type)
           ELSE m.TableName \in names

\* the table name the amended C8 states for each struct type
GormFieldTable ==
    [t \in {u \in TypeIds : Types[u].kind = "struct"} |->
        LET fs == Types[t].fields
            named == {k \in DOMAIN fs : fs[k].Name = sGorm}
            first == CHOOSE k \in named : \A j \in named : k <= j
            parts == IF named = {} \/ fs[first].gorm = <<>> THEN <<>>
                     ELSE SelectSeq([j \in DOMAIN Split(fs[first].gorm) |->
                                        TrimSpace(Split(fs[first].gorm)[j])],
                                    LAMBDA fr : HasPrefix(fr, sTableColon))
        IN IF parts # <<>> /\ Len(parts[1]) > Len(sTableColon)
           THEN SubSeq(parts[1], Len(sTableColon) + 1, Len(parts[1]))
           ELSE DefaultTableName(t)]

\* C8 amended: TableName is <name> when the struct has a field named gorm
\* whose gorm tag holds a fragment table:<name> with a non-empty <name> (the
\* first such fragment decides); in every other case, a table: fragment on
\* another field included, the pluralized snake_case default is kept.
C8_GormFieldTableTag ==
    \A i \in DOMAIN metas :
        LET m == metas[i]
        IN /\ m.TableName = GormFieldTable[m.Type]
           /\ Types[m.Type] = ArticleDecl => m.TableName = <<"p","o","s","t","s">>
           /\ Types[m.Type] = InvoiceDecl => m.TableName = <<"i","n","v","o","i","c","e","s">>

\* C8 witness: Parse has returned Article's descriptor, and Invoice's is built
C8_Witness ==
    /\ ret.kind = "ok"
    /\ Types[ret.arg.type] = ArticleDecl
    /\ metas[ret.meta].TableName = <<"p","o","s","t","s">>
    /\ \E i \in DOMAIN metas : Types[metas[i].Type] = InvoiceDecl

\* C9: a field tagged count:<path> or sum:<path> has an aggregate descriptor
\* in Aggregates, named after the field, of that kind and path, which
\* GetAggregateByName returns.
C9_AggregatesRecorded ==
    \A i \in DOMAIN metas :
        LET m == metas[i]
            decl == ExportedFields(m.Type)
        IN \A j \in DOMAIN decl : \A fr \in Fragments(decl[j].blar) :
               /\ HasPrefix(fr, sCountColon) =>
                      GetAggregateByName(m, decl[j].Name) =
                          <<[Name |-> decl[j].Name, Type |-> sCount,
                             Field |-> TrimPrefix(fr, sCountColon)]>>
               /\ HasPrefix(fr, sSumColon) =>
                      GetAggregateByName(m, decl[j].Name) =
                          <<[Name |-> decl[j].Name, Type |-> sSum,
                             Field |-> TrimPrefix(fr, sSumColon)]>>

(***************************************************************************)
(* parseField on single fragments                                          *)
(***************************************************************************)
FlagWords == {sPk, sNested, sList, sHidden, sReadonly}

Flags(fm) ==
    [IsPK |-> fm.IsPK, Nested |-> fm.Nested, List |-> fm.List,
     Hidden |-> fm.Hidden, ReadOnly |-> fm.ReadOnly]

\* the flags with exactly the one named by word set
Only(word) ==
    [IsPK |-> word = sPk, Nested |-> word = sNested, List |-> word = sList,
     Hidden |-> word = sHidden, ReadOnly |-> word = sReadonly]

\* a go-blar tag that is one recognized flag fragment
SingleFlag(tag) ==
    tag # <<>> /\ Len(Split(tag)) = 1 /\ TrimSpace(tag) \in FlagWords

\* a go-blar tag that is empty or holds only fragments outside the grammar
Unrecognized(tag) ==
    \A fr \in Fragments(tag) :
        /\ fr \notin FlagWords
        /\ \A pre \in {sFkColon, sM2mColon, sCountColon, sSumColon} : ~HasPrefix(fr, pre)

\* C10 as stated: a single recognized flag fragment sets exactly the matching
\* flag and no other, FK and M2M stay nil; without a recognized fragment every
\* flag is false.
C10_ExactlyTheFlag ==
    fmOut # <<>> =>
        LET fm == fmOut[1] IN
        /\ SingleFlag(sfIn.Tag.blar) =>
               /\ Flags(fm) = Only(TrimSpace(sfIn.Tag.blar))
               /\ fm.FK = <<>>
               /\ fm.M2M = <<>>
        /\ Unrecognized(sfIn.Tag.blar) =>
               /\ Flags(fm) = Only(<<>>)
               /\ fm.FK = <<>>
               /\ fm.M2M = <<>>

\* C10 amended: as stated for the flags the go-blar tag decides, and IsPK is
\* set as well whenever the field's gorm tag contains the text primaryKey.
C10_FlagPlusGormPK ==
    fmOut # <<>> =>
        LET fm == fmOut[1]
            gormPK == \E k \in 1..Len(sfIn.Tag.gorm) :
                          /\ k + Len(sPrimaryKey) - 1 <= Len(sfIn.Tag.gorm)
                          /\ \A d \in 1..Len(sPrimaryKey) :
                                 sfIn.Tag.gorm[k + d - 1] = sPrimaryKey[d]
        IN /\ SingleFlag(sfIn.Tag.blar) =>
                  /\ Flags(fm) = [Only(TrimSpace(sfIn.Tag.blar)) EXCEPT
                                     !.IsPK = @ \/ gormPK]
                  /\ fm.FK = <<>>
                  /\ fm.M2M = <<>>
           /\ Unrecognized(sfIn.Tag.blar) =>
                  /\ Flags(fm) = [Only(<<>>) EXCEPT !.IsPK = gormPK]
                  /\ fm.FK = <<>>
                  /\ fm.M2M = <<>>

\* C10 witness: parseField has run on a field tagged hidden whose gorm tag
\* marks it primary key
C10_Witness ==
    /\ fmOut # <<>>
    /\ sfIn.Tag.blar = sHidden
    /\ sfIn.Tag.gorm = sPrimaryKey
    /\ fmOut[1].Hidden
    /\ fmOut[1].IsPK

\* the claim's rule for an underscore before the character at index i:
\* never at the first index, and only before an uppercase character whose
\* predecessor is lowercase, or whose predecessor is uppercase and whose
\* successor is lowercase
RefInsert(s, i) ==
    /\ i > 1
    /\ IsUpper(s[i])
    /\ \/ IsLower(s[i-1])
       \/ IsUpper(s[i-1]) /\ i < Len(s) /\ IsLower(s[i+1])

\* the rule with the predecessor of case (b) being any character but the
\* underscore
AnyPrevInsert(s, i) ==
    /\ i > 1
    /\ IsUpper(s[i])
    /\ \/ IsLower(s[i-1])
       \/ s[i-1] # "_" /\ i < Len(s) /\ IsLower(s[i+1])

\* the identifier with an underscore before every index the rule selects,
\* in lower case
SnakeBy(Ins(_, _), s) ==
    ToLower(Concat([i \in DOMAIN s |-> IF Ins(s, i) THEN <<"_", s[i]>> ELSE <<s[i]>>]))

\* two adjacent underscores
HasDoubleUnderscore(s) ==
    \E i \in 1..(Len(s) - 1) : s[i] = "_" /\ s[i+1] = "_"

\* the parts of C11 beside the rule: the naming table, nothing inserted at
\* the first index, no adjacent underscores that the identifier did not
\* have, and no uppercase character left
SnakeShape(in, out) ==
    /\ \A row \in NamingTable : in = row[1] => out = row[2]
    /\ in # <<>> => out # <<>> /\ out[1] = ToLowerRune(in[1])
    /\ HasDoubleUnderscore(out) => HasDoubleUnderscore(in)
    /\ \A i \in DOMAIN out : ~IsUpper(out[i])

\* C11: the result of toSnakeCase equals the reference rule (underscore
\* before an uppercase character when the previous is lowercase, or the
\* previous is uppercase and the next lowercase) on every identifier over
\* letters, digits and underscore, with the naming table as instances.
C11_ReferenceRule ==
    snOut # <<>> =>
        /\ snOut[1] = SnakeBy(RefInsert, snIn)
        /\ SnakeShape(snIn, snOut[1])

\* C11 amended: case (b) holds for any previous character other than an
\* underscore (an uppercase letter or a digit) when the next is lowercase.
C11_AnyPrevRule ==
    snOut # <<>> =>
        /\ snOut[1] = SnakeBy(AnyPrevInsert, snIn)
        /\ SnakeShape(snIn, snOut[1])

C11_Witness ==
    /\ snIn = <<"b", "1", "A", "b">>
    /\ snOut = <<(<<"b", "1", "_", "a", "b">>)>>

\* C12: ClearRegistry discards every cached descriptor in one atomic step:
\* the registry is empty after it, the next Parse builds a new descriptor,
\* and no Parse running concurrently with the reset leaves a descriptor
\* built before the reset in the registry.  Every entry of the registry is
\* a descriptor built after the last reset.
C12_OnlyPostResetDescriptors ==
    \A k \in DOMAIN registry : registry[k] \notin preReset

\* a Repository operation returned in this step
RepoReturned == repoRet.op # "none"

\* the operation went to an engine that answers
RepoLive == RepoReturned /\ repoDb = "db" /\ repoRet.up

\* C13: on a Repository constructed with a nil driver handle every operation
\* returns gorm.ErrInvalidDB with a zero/nil result, without calling the
\* driver and without modifying the entity passed in or the stored rows.
C13_NilDriver ==
    (RepoReturned /\ repoDb = "nil") =>
        /\ repoRet.err = ErrInvalidDB
        /\ repoRet.out = <<>>
        /\ repoRet.count = 0
        /\ ~repoRet.called
        /\ repoRet.ent = repoRet.in
        /\ rows = repoRet.before

C13_Witness ==
    /\ repoDb = "nil"
    /\ repoRet.op = "Create"
    /\ repoRet.in = [ID |-> 0, Name |-> "Jane"]
    /\ repoRet.err = ErrInvalidDB

\* C14: Repository round trip on an engine that answers: Create of an entity
\* without a key succeeds and assigns a non-zero primary key into the input,
\* and the row under that key equals the entity; GetByID returns the stored
\* row of its key, or nil and ErrRecordNotFound when no row has the key;
\* Update succeeds and the row under the entity's key equals the entity;
\* after Delete(id) no row has the key id.
C14_RoundTrip ==
    RepoLive =>
        /\ repoRet.op = "Create" =>
              /\ repoRet.in.ID = 0 => repoRet.err = ErrNil
              /\ repoRet.err = ErrNil =>
                    /\ repoRet.ent.ID # 0
                    /\ repoRet.ent.Name = repoRet.in.Name
                    /\ repoRet.ent.ID \in DOMAIN rows
                    /\ RowOf(rows, repoRet.ent.ID) = repoRet.ent
        /\ repoRet.op = "GetByID" =>
              IF repoRet.id \in DOMAIN rows
              THEN repoRet.err = ErrNil /\ repoRet.out = <<RowOf(rows, repoRet.id)>>
              ELSE repoRet.err = ErrRecordNotFound /\ repoRet.out = <<>>
        /\ repoRet.op = "Update" =>
              /\ repoRet.err = ErrNil
              /\ repoRet.ent.Name = repoRet.in.Name
              /\ repoRet.ent.ID \in DOMAIN rows
              /\ RowOf(rows, repoRet.ent.ID) = repoRet.ent
        /\ repoRet.op = "Delete" =>
              /\ repoRet.err = ErrNil
              /\ repoRet.id \notin DOMAIN rows

\* an Update that set the name of a stored row to its zero value
C14_Witness ==
    /\ RepoLive
    /\ repoRet.op = "Update"
    /\ repoRet.in.ID \in DOMAIN repoRet.before
    /\ repoRet.before[repoRet.in.ID] = "Jane"
    /\ repoRet.in.Name = ""
    /\ rows[repoRet.in.ID] = ""

\* C15: Delete with an id that matches no row (never created, or deleted
\* before) returns no error on an engine that answers and leaves every
\* stored row unchanged.
C15_DeleteIdempotent ==
    (RepoLive /\ repoRet.op = "Delete" /\ repoRet.id \notin DOMAIN repoRet.before) =>
        /\ repoRet.err = ErrNil
        /\ rows = repoRet.before

C15_Witness ==
    /\ RepoLive
    /\ repoRet.op = "Delete"
    /\ repoRet.id \notin DOMAIN repoRet.before
    /\ repoRet.before # EmptyTable
    /\ repoRet.err = ErrNil

\* C16: on an engine that answers, Count returns the number of rows stored
\* and GetAll returns exactly the stored rows, each once (its length equals
\* that count); GetByID, GetAll and Count never change the stored rows.
C16_CountAndGetAll ==
    /\ (RepoLive /\ repoRet.op = "Count") =>
          repoRet.err = ErrNil /\ repoRet.count = Cardinality(DOMAIN rows)
    /\ (RepoLive /\ repoRet.op = "GetAll") =>
          /\ repoRet.err = ErrNil
          /\ Len(repoRet.out) = Cardinality(DOMAIN rows)
          /\ {repoRet.out[i] : i \in DOMAIN repoRet.out} = {RowOf(rows, id) : id \in DOMAIN rows}
    /\ repoRet.op \in {"GetByID", "GetAll", "Count"} => rows = repoRet.before

\* GetAll on a table whose first row was deleted
C16_Witness ==
    /\ RepoLive
    /\ repoRet.op = "GetAll"
    /\ Len(repoRet.out) = 1
    /\ 1 \notin DOMAIN rows

\* the hook interface a dispatcher is named after
Matching(d) ==
    IF d = "CallBeforeCreate" THEN "BeforeCreate"
    ELSE IF d = "CallAfterCreate" THEN "AfterCreate"
    ELSE IF d = "CallBeforeUpdate" THEN "BeforeUpdate"
    ELSE IF d = "CallAfterUpdate" THEN "AfterUpdate"
    ELSE IF d = "CallBeforeDelete" THEN "BeforeDelete"
    ELSE "AfterDelete"

Dispatchers ==
    {"CallBeforeCreate", "CallAfterCreate", "CallBeforeUpdate", "CallAfterUpdate",
     "CallBeforeDelete", "CallAfterDelete"}

\* C17: a dispatcher whose entity implements the matching hook interface
\* invokes that hook and no other exactly once and returns the hook's error
\* (or nil) unchanged; on an entity that does not implement it the
\* dispatcher returns nil with no hook invoked.  Once all six dispatchers
\* have been called on one *MockEntityWithHooks, its six called flags are
\* set.
C17_HookDispatch ==
    /\ hkRet.disp # "none" =>
          LET h == Matching(hkRet.disp) IN
          IF Implements(hkRet.in, h)
          THEN /\ hkRet.calls = [x \in HookNames |-> IF x = h THEN 1 ELSE 0]
               /\ hkRet.err = Invoke(hkRet.in, h).err
               /\ hkEntity = Invoke(hkRet.in, h).ent
          ELSE /\ hkRet.calls = [x \in HookNames |-> 0]
               /\ hkRet.err = ErrNil
               /\ hkEntity = hkRet.in
    /\ (hkDone = Dispatchers /\ hkEntity.type = "MockEntityWithHooks" /\ hkEntity.ptr) =>
          \A h \in HookNames : hkEntity.Called[h]

\* the sixth dispatcher returning the failing hook's error
C17_Witness ==
    /\ hkDone = Dispatchers
    /\ hkEntity.type = "MockEntityWithHooks"
    /\ hkEntity.ptr
    /\ hkRet.disp = "CallAfterDelete"
    /\ hkRet.err = "after delete failed"
    /\ \A h \in HookNames : hkEntity.Called[h]

\* the handler of the request has returned
Served == hnd.pc = "done"

WriteRoutes == {"POST /", "PUT /{id}", "DELETE /{id}"}

\* the storage write of a route and the hooks around it
WriteOf(route) ==
    IF route = "POST /" THEN "Create" ELSE IF route = "PUT /{id}" THEN "Updates" ELSE "Delete"

BeforeOf(route) ==
    IF route = "POST /" THEN "BeforeCreate"
    ELSE IF route = "PUT /{id}" THEN "BeforeUpdate" ELSE "BeforeDelete"

AfterOf(route) ==
    IF route = "POST /" THEN "AfterCreate"
    ELSE IF route = "PUT /{id}" THEN "AfterUpdate" ELSE "AfterDelete"

\* the hooks invoked and the storage writes made, in order, without the reads
LifeCycle(trace) == SelectSeq(trace, LAMBDA ev : ev.op \notin {"First", "Find"})

OpsOf(trace) == [i \in DOMAIN trace |-> trace[i].op]

IsPrefix(a, b) == Len(a) <= Len(b) /\ a = SubSeq(b, 1, Len(a))

\* the lifecycle of a request on a route for the entity type served
FullLifeCycle(route) ==
    IF HookNames \subseteq Methods(hMeta)
    THEN <<BeforeOf(route), WriteOf(route), AfterOf(route)>>
    ELSE <<WriteOf(route)>>

\* C18: in every create, update and delete request the handler runs the
\* before-hook, then the storage write, then the after-hook, in that order
\* and each at most once, all of them when the request succeeds; if the
\* before-hook returns an error, the write and the after-hook are not
\* executed and the stored rows are unchanged.
C18_HookWriteHookOrder ==
    hreq.route \in WriteRoutes =>
        LET life == LifeCycle(hnd.trace) IN
        /\ IsPrefix(OpsOf(life), FullLifeCycle(hreq.route))
        /\ (Served /\ hnd.status \in {StatusOK, StatusCreated, StatusNoContent}) =>
              OpsOf(life) = FullLifeCycle(hreq.route)
        /\ \A i \in DOMAIN life :
              (life[i].op = BeforeOf(hreq.route) /\ life[i].err # ErrNil) =>
                  /\ i = Len(life)
                  /\ rows = hreq.rows0

\* a delete request refused by BeforeDelete after the row was read
C18_Witness ==
    /\ Served
    /\ hreq.route = "DELETE /{id}"
    /\ OpsOf(hnd.trace) = <<"First", "BeforeDelete">>
    /\ hnd.trace[2].err # ErrNil
    /\ hnd.status = StatusInternalServerError
    /\ rows # EmptyTable

\* text of an integer: an optional sign, then digits and at least one
IntegerText(s) ==
    LET d == IF s # <<>> /\ s[1] \in {"+", "-"} THEN Tail(s) ELSE s
    IN d # <<>> /\ \A i \in DOMAIN d : IsDigit(d[i])

\* a create or update body that cannot be decoded, or an {id} of a get,
\* update or delete that is not an integer
BadRequest ==
    \/ hreq.route \in {"POST /", "PUT /{id}"} /\ ~hreq.body.ok
    \/ hreq.route \in {"GET /{id}", "PUT /{id}", "DELETE /{id}"} /\ ~IntegerText(hreq.idStr)

\* C19: a request whose body cannot be decoded (create, update) or whose
\* {id} is not an integer (get, update, delete) is answered with 400, and
\* no hook is invoked and no storage operation performed for it.
C19_BadRequest ==
    BadRequest =>
        /\ hnd.trace = <<>>
        /\ rows = hreq.rows0
        /\ Served => hnd.status = StatusBadRequest

\* an update with a decodable body and the id 1x
C19_Witness ==
    /\ Served
    /\ hreq.route = "PUT /{id}"
    /\ hreq.body.ok
    /\ hreq.idStr = <<"1", "x">>
    /\ hreq.rows0 # EmptyTable
    /\ hnd.status = StatusBadRequest

\* the integer an {id} denotes
IntegerValue(s) ==
    IF s[1] = "-" THEN 0 - DigitsValue(Tail(s))
    ELSE IF s[1] = "+" THEN DigitsValue(Tail(s)) ELSE DigitsValue(s)

\* C20: a get-by-id or delete request for an id with no stored row, on an
\* engine that answers, gets 404; in the delete case no hook is invoked and
\* no row is removed.  Any other storage error on these routes gets 500.
C20_NotFound ==
    (Served /\ hreq.route \in {"GET /{id}", "DELETE /{id}"} /\ IntegerText(hreq.idStr)) =>
        /\ (IntegerValue(hreq.idStr) \notin DOMAIN hreq.rows0 /\ hnd.trace[1].err # ErrDriver) =>
              /\ hnd.status = StatusNotFound
              /\ OpsOf(hnd.trace) = <<"First">>
              /\ rows = hreq.rows0
        /\ (\E i \in DOMAIN hnd.trace :
                /\ hnd.trace[i].op \in {"First", "Delete"}
                /\ hnd.trace[i].err \notin {ErrNil, ErrRecordNotFound}) =>
              hnd.status = StatusInternalServerError

\* a delete of an id that has no row while other rows are stored
C20_Witness ==
    /\ Served
    /\ hMeta = "MockEntityWithHooks"
    /\ hreq.route = "DELETE /{id}"
    /\ hreq.idStr = <<"2">>
    /\ DOMAIN rows = {1}
    /\ hnd.status = StatusNotFound

\* no hook and no storage call of the request returned an error
NoCallFailed == \A i \in DOMAIN hnd.trace : hnd.trace[i].err = ErrNil

\* C21: an update (PUT /{id}) request for an id with no stored row is
\* answered with 404 Not Found rather than a success response, and creates
\* no row.
C21_UpdateNotFound ==
    (/\ Served
     /\ hreq.route = "PUT /{id}"
     /\ hreq.body.ok
     /\ IntegerText(hreq.idStr)
     /\ IntegerValue(hreq.idStr) \notin DOMAIN hreq.rows0
     /\ NoCallFailed) =>
        /\ hnd.status = StatusNotFound
        /\ rows = hreq.rows0


\* C22: RegisterEntityRoutes registers exactly the five routes POST /<seg>,
\* GET /<seg>, GET /<seg>/{id}, PUT /<seg>/{id}, DELETE /<seg>/{id}, where
\* <seg> is the entity's name lowercased (product for Product).
C22_FiveRoutesLowercased ==
    rtOut # <<>> => rtOut[1] = FiveRoutes(LowerBytes(rtIn))

\* the routes RegisterEntityRoutes gives the entities of the App registry
RegisteredRoutes == UNION {RegisterEntityRoutes(n) : n \in DOMAIN app.registry}

\* C23: once Register has succeeded and Start is serving, a request to one
\* of the five CRUD routes of a registered entity reaches the matching CRUD
\* handler, not the not-found handler.
C23_StartServesRoutes ==
    (server.listening /\ server.last # NoResponse) =>
        \A r \in RegisteredRoutes :
            (/\ r.method = server.last.method
             /\ r.seg = server.last.seg
             /\ r.id = server.last.id) => server.last.handler = r.handler

\* C26: Register on an App built without WithDB returns a non-nil error and
\* has no effect: the App registry stays empty, nothing is parsed into the
\* metadata registry and no migration is attempted.
C26_NoDriverNoEffect ==
    (app.made /\ ~app.db /\ appRet.op = "Register") =>
        /\ appRet.state = "returned"
        /\ appRet.err # ErrNil
        /\ app.registry = EmptyRegistry
        /\ appRet.parsed = <<>>
        /\ registry = EmptyRegistry
        /\ metas = <<>>
        /\ migrated = <<>>

C26_Witness ==
    /\ app.made
    /\ ~app.db
    /\ ~appRet.run
    /\ appRet.op = "Register"
    /\ appRet.state = "returned"
    /\ Len(appRet.models) = MaxModels
    /\ \A i \in DOMAIN appRet.models : appRet.models[i].kind = "ptr"

\* a model Parse and AutoMigrate accept: a pointer to a struct
ValidModel(v) == v.kind = "ptr" /\ Types[v.type].kind = "struct"

\* C27: Run(models...) with valid models: Register succeeds (and Start then
\* serves on :8080).
C27_RunRegistersThenStarts ==
    (/\ appRet.run
     /\ appRet.op = "Register"
     /\ appRet.state = "returned"
     /\ \A i \in DOMAIN appRet.models : ValidModel(appRet.models[i])
     /\ \A j \in DOMAIN migrated : migrated[j].ok) => appRet.err = ErrNil

\* t.Name() of the model's struct type
ModelName(v) == TypeName(v.type)

\* the models AutoMigrate has accepted
OkMigrated == {migrated[j].model : j \in {j \in DOMAIN migrated : migrated[j].ok}}

\* a Register call on an App with a driver has ended
RegisterEnded ==
    /\ app.db
    /\ appRet.op = "Register"
    /\ appRet.state \in {"returned", "panicked"}

\* it ended at a model that could not be parsed or migrated
RegisterFailed ==
    RegisterEnded /\ (appRet.state = "panicked" \/ appRet.err # ErrNil)

\* models 1..k-1 are registered and migrated, the models up to k and no
\* later one were handed to Parse, and the App registry holds the names of
\* the migrated models only
StoppedAt(k) ==
    /\ appRet.parsed = [j \in 1..(IF k > Len(appRet.models) THEN Len(appRet.models) ELSE k)
                           |-> appRet.models[j]]
    /\ \A j \in 1..(k - 1) :
          /\ ModelName(appRet.models[j]) \in DOMAIN app.registry
          /\ appRet.models[j] \in OkMigrated
    /\ DOMAIN app.registry = {ModelName(m) : m \in OkMigrated}

\* C30: Register works through the models in order and stops at the first
\* that fails to parse or to migrate: it returns an error, the earlier models
\* stay registered and migrated, the later ones are never parsed or migrated,
\* the failed one is not added to the App registry.  On success every model's
\* name is in the App registry.
C30_StopsAtFirstFailure ==
    /\ RegisterFailed =>
          /\ appRet.state = "returned"
          /\ appRet.err # ErrNil
          /\ StoppedAt(appRet.i)
    /\ (RegisterEnded /\ ~RegisterFailed) => StoppedAt(Len(appRet.models) + 1)

\* the same with a panic of Parse taken for the returned error
C30_ButPanic ==
    /\ RegisterFailed => StoppedAt(appRet.i)
    /\ (RegisterEnded /\ ~RegisterFailed) => StoppedAt(Len(appRet.models) + 1)

\* the request has been handed to a handler that answers with entities
ReadRoutes == {"POST /", "GET /", "GET /{id}", "PUT /{id}"}

\* C24: when the Name field is tagged hidden, no response of the create,
\* list, get or update handler carries a value for it.
C24_HiddenNotInResponse ==
    (/\ Served
     /\ hreq.route \in ReadRoutes
     /\ NameFieldMeta(hMeta).Hidden) =>
        \A i \in DOMAIN hnd.out : hnd.out[i].Name = ""

\* C25: when the Name field is tagged readonly, a create or update request
\* stores for it what it would store had the body omitted the field: the
\* Name of every row is the one it had when the request arrived, and empty
\* for a row the request created.
C25_ReadonlyNotWritten ==
    (/\ hnd.pc # "idle"
     /\ hreq.route \in {"POST /", "PUT /{id}"}
     /\ NameFieldMeta(hMeta).ReadOnly) =>
        \A id \in DOMAIN rows :
            rows[id] = IF id \in DOMAIN hreq.rows0 THEN hreq.rows0[id] ELSE ""

\* the names of the exported fields of every struct type, in declaration order
ExportedNames ==
    [t \in {u \in TypeIds : Types[u].kind = "struct"} |->
        [k \in DOMAIN ExportedFields(t) |-> ExportedFields(t)[k].Name]]

\* the field names declared in any of the types, and one declared in none
FieldNames ==
    UNION {{Types[t].fields[k].Name : k \in DOMAIN Types[t].fields} : t \in TypeIds}
      \cup {<<"N","o","p","e">>}

\* the descriptor m has one FieldMeta per exported field of the struct t, in
\* declaration order, and GetFieldByName finds exactly those
DescribesFields(m, t) ==
    /\ [k \in DOMAIN m.Fields |-> m.Fields[k].Name] = ExportedNames[t]
    /\ \A name \in FieldNames :
          LET at == {k \in DOMAIN ExportedNames[t] : ExportedNames[t][k] = name}
          IN GetFieldByName(m, name) =
                 IF at = {} THEN <<>> ELSE <<m.Fields[CHOOSE k \in at : TRUE]>>

\* C28: the descriptor Parse returns for a struct holds exactly one FieldMeta
\* per exported field of that struct, tagged or not, in declaration order, and
\* none for an unexported field; GetFieldByName returns the descriptor of an
\* exported field's name and nil for any other name.
C28_FieldsOfTheStruct ==
    (ret.kind = "ok" /\ IsStructInput(ret.arg)) =>
        DescribesFields(metas[ret.meta], ret.arg.type)

\* the same of every descriptor and the struct it was built from
C28_BuiltFields ==
    \A i \in DOMAIN metas : DescribesFields(metas[i], metas[i].Type)

\* the request ran its before-hook and its storage write without error and
\* its after-hook returned an error
AfterHookFailed ==
    /\ Served
    /\ hreq.route \in WriteRoutes
    /\ LET life == LifeCycle(hnd.trace) IN
       /\ OpsOf(life) = <<BeforeOf(hreq.route), WriteOf(hreq.route), AfterOf(hreq.route)>>
       /\ life[1].err = ErrNil
       /\ life[2].err = ErrNil
       /\ life[3].err # ErrNil

\* the table holds what the request's write made of the table it found
WriteKept ==
    IF hreq.route = "POST /"
    THEN /\ hnd.ent.ID \in Ids \ DOMAIN hreq.rows0
         /\ DOMAIN rows = DOMAIN hreq.rows0 \cup {hnd.ent.ID}
         /\ rows[hnd.ent.ID] = hreq.body.ent.Name
         /\ \A k \in DOMAIN hreq.rows0 : rows[k] = hreq.rows0[k]
    ELSE IF hreq.route = "PUT /{id}"
    THEN /\ DOMAIN rows = DOMAIN hreq.rows0
         /\ \A k \in DOMAIN rows :
               rows[k] = IF /\ k = hnd.id
                            /\ hreq.body.ent.ID \in {0, k}
                            /\ hreq.body.ent.Name # ""
                         THEN hreq.body.ent.Name
                         ELSE hreq.rows0[k]
    ELSE /\ hnd.id \in DOMAIN hreq.rows0
         /\ DOMAIN rows = DOMAIN hreq.rows0 \ {hnd.id}
         /\ \A k \in DOMAIN rows : rows[k] = hreq.rows0[k]

\* C29: in the create, update and delete handlers, when the before-hook and
\* the storage write succeed and the after-hook returns an error, the
\* response is 500 and the write is not undone: the created row stays
\* stored, the update stays applied, the deleted row stays deleted.
C29_AfterHookFailureKeepsWrite ==
    AfterHookFailed =>
        /\ hnd.status = StatusInternalServerError
        /\ WriteKept

\* an update request changed a stored row and AfterUpdate then failed
C29_Witness ==
    /\ AfterHookFailed
    /\ hreq.route = "PUT /{id}"
    /\ hnd.status = StatusInternalServerError
    /\ hnd.id \in DOMAIN hreq.rows0
    /\ rows[hnd.id] # hreq.rows0[hnd.id]

====
